---- MODULE Spec2Model ----
(***************************************************************************)
(* Event-sourced shopping cart and product inventory (lab_3).              *)
(*                                                                         *)
(* Two specifications share this module:                                   *)
(*   SpecDomain  one aggregate object (a CartAggregate or a                *)
(*               ProductAggregate, as in the unit tests) driven by its     *)
(*               command methods, with the wall clock advancing;           *)
(*   Spec        the running service: request handlers executing the use   *)
(*               cases against the two event stores and the two read       *)
(*               models, interleaved at every await.                       *)
(* Money is counted in integer minor units; a UUID is modelled by the      *)
(* value that makes it unique (a cart name, a request number).             *)
(***************************************************************************)
EXTENDS Integers, Sequences, FiniteSets, TLC

VARIABLES
    now,            \* wall clock, in minutes (datetime.now / datetime.utcnow)
    focus,          \* SpecDomain: which aggregate class the run exercises
    cart,           \* SpecDomain: the live CartAggregate object
    product,        \* SpecDomain: the live ProductAggregate object
    last,           \* SpecDomain: the last command called and how it ended
    cart_events,    \* Spec: rows of table cart_events
    product_events, \* Spec: rows of table product_events
    cart_read_model,    \* Spec: rows of table cart_read_model, by cart_id
    product_read_model, \* Spec: rows of table product_read_model, by product_id
    procs,          \* Spec: the request handlers (coroutines) and their locals
    saves,          \* Spec: history of the finished save_events calls
    started,        \* Spec: number of requests accepted so far
    running,        \* CartExpirationBackgroundTask._running
    notifications,  \* lab_2: rows of table notifications, by id
    celery_queue,   \* lab_2: the send tasks published and not yet received
    workers,        \* lab_2: the Celery worker processes and their task
    delivered       \* lab_2: calls of deliver_email / deliver_push, by id

vars == <<now, focus, cart, product, last, cart_events, product_events,
          cart_read_model, product_read_model, procs, saves, started,
          running, notifications, celery_queue, workers, delivered>>

domainVars == <<focus, cart, product, last>>
notifierVars == <<notifications, celery_queue, workers, delivered>>
systemVars == <<cart_events, product_events, cart_read_model,
                product_read_model, procs, saves, started, running,
                notifierVars>>

----------------------------------------------------------------------------
(* Bounds of the model *)

MaxEvents == 3      \* SpecDomain: events one aggregate object may emit
MaxTicks == 2       \* clock advances in a run
TickMinutes == 8    \* minutes per clock advance
MaxRequests == 2    \* Spec: requests accepted in a run
MaxRetryRequests == 4   \* SpecRetry: requests accepted in a run

(* Program constants *)

reservation_minutes == 15
max_retries == 3

(* Python's None, for a string field and for a datetime field *)
None == "None"
NoTime == 0 - 1

(* Input domains *)
CartIds == {"c1", "c2"}
ProductIds == {"P001", "P002"}
UserIds == {"user_123"}
OrderIds == {"O-1", "O-2"}
Quantities == {0, 1, 2}
\* what the caller passes as product data: a name and a price
Offers == { [name |-> "Laptop", price |-> 2],
            [name |-> "Laptop Pro", price |-> 3],
            [name |-> "Laptop", price |-> 0 - 1] }

----------------------------------------------------------------------------
(* Helpers over dicts (functions with a finite domain) and sequences *)

\* A Python dict keeps its keys in insertion order: a sequence of <<key, value>>
EmptyDict == <<>>

DictKeys(d) == {d[i][1] : i \in DOMAIN d}

DictGet(d, k) == d[CHOOSE i \in DOMAIN d : d[i][1] = k][2]

\* d[k] = v: a key already present keeps its position
DictPut(d, k, v) ==
    IF k \in DictKeys(d)
    THEN [i \in DOMAIN d |-> IF d[i][1] = k THEN <<k, v>> ELSE d[i]]
    ELSE Append(d, <<k, v>>)

\* d.pop(k, None)
DictPop(d, k) == SelectSeq(d, LAMBDA e : e[1] # k)

\* list(d.values())
DictValues(d) == [i \in DOMAIN d |-> d[i][2]]

RECURSIVE SeqSum(_)
SeqSum(s) == IF s = <<>> THEN 0 ELSE Head(s) + SeqSum(Tail(s))

Raised(r) == r.raised # None

----------------------------------------------------------------------------
(* Cart aggregate: src/lab_3/app/domain/cart/aggregate.py *)

CartItem(product_id, product_name, price, quantity) ==
    [product_id |-> product_id, product_name |-> product_name,
     price |-> price, quantity |-> quantity]

total_price(item) == item.price * item.quantity

CartAggregate(cart_id) ==
    [cart_id |-> cart_id,
     user_id |-> None,
     items |-> EmptyDict,
     status |-> "PENDING",
     version |-> 0,
     created_at |-> NoTime,
     last_activity |-> NoTime,
     uncommitted_events |-> <<>>]

Cart_apply_CartCreated(self, event) ==
    [self EXCEPT !.user_id = event.user_id,
                 !.status = "PENDING",
                 !.created_at = event.occurred_at,
                 !.last_activity = event.occurred_at,
                 !.version = event.aggregate_version]

Cart_apply_ItemAddedToCart_Replace(self, event) ==
    [self EXCEPT !.items = DictPut(self.items, event.product_id,
                               CartItem(event.product_id, event.product_name,
                                        event.price, event.quantity)),
                 !.last_activity = event.occurred_at,
                 !.version = event.aggregate_version]

Cart_apply_ItemAddedToCart(self, event) ==
    [self EXCEPT !.items =
                    IF event.product_id \in DictKeys(self.items)
                    THEN DictPut(self.items, event.product_id,
                            [DictGet(self.items, event.product_id)
                                EXCEPT !.quantity = @ + event.quantity])
                    ELSE DictPut(self.items, event.product_id,
                                 CartItem(event.product_id, event.product_name,
                                          event.price, event.quantity)),
                 !.last_activity = event.occurred_at,
                 !.version = event.aggregate_version]

Cart_apply_ItemRemovedFromCart(self, event) ==
    [self EXCEPT !.items = DictPop(self.items, event.product_id),
                 !.last_activity = event.occurred_at,
                 !.version = event.aggregate_version]

Cart_apply_ItemQuantityChanged(self, event) ==
    [self EXCEPT !.items =
                    IF event.product_id \in DictKeys(self.items)
                    THEN DictPut(self.items, event.product_id,
                            [DictGet(self.items, event.product_id)
                                EXCEPT !.quantity = event.new_quantity])
                    ELSE self.items,
                 !.last_activity = event.occurred_at,
                 !.version = event.aggregate_version]

\* variant: the event leaves the status of the cart as it is
Cart_apply_CartCheckedOut_KeepsStatus(self, event) ==
    [self EXCEPT !.last_activity = event.occurred_at,
                 !.version = event.aggregate_version]

Cart_apply_CartCheckedOut(self, event) ==
    [self EXCEPT !.status = "CHECKED_OUT",
                 !.last_activity = event.occurred_at,
                 !.version = event.aggregate_version]

Cart_apply_CartExpired(self, event) ==
    [self EXCEPT !.status = "EXPIRED",
                 !.last_activity = event.occurred_at,
                 !.version = event.aggregate_version]

\* the handler getattr(self, "_apply_" + event_type) finds
Cart_handler(self, event) ==
    CASE event.event_type = "CartCreated" -> Cart_apply_CartCreated(self, event)
      [] event.event_type = "ItemAddedToCart" -> Cart_apply_ItemAddedToCart(self, event)
      [] event.event_type = "ItemRemovedFromCart" -> Cart_apply_ItemRemovedFromCart(self, event)
      [] event.event_type = "ItemQuantityChanged" -> Cart_apply_ItemQuantityChanged(self, event)
      [] event.event_type = "CartCheckedOut" -> Cart_apply_CartCheckedOut(self, event)
      [] event.event_type = "CartExpired" -> Cart_apply_CartExpired(self, event)

Cart_apply_event_AlwaysNew(self, event, is_new) ==
    LET applied == Cart_handler(self, event)
    IN [applied EXCEPT !.uncommitted_events = Append(@, event)]

Cart_apply_event(self, event, is_new) ==
    LET applied == Cart_handler(self, event)
    IN IF is_new
       THEN [applied EXCEPT !.uncommitted_events = Append(@, event)]
       ELSE applied

\* DomainEvent base fields; occurred_at defaults to the clock at construction
CartEvent(event_type, event_id, self, t, payload) ==
    [event_type |-> event_type,
     event_id |-> <<event_id, self.version + 1>>,   \* uuid4()
     aggregate_id |-> self.cart_id,
     aggregate_version |-> self.version + 1,
     occurred_at |-> t] @@ payload

\* a command method ends with the aggregate it leaves and the exception raised
Return(self) == [agg |-> self, raised |-> None]
Raise(self, exc) == [agg |-> self, raised |-> exc]

CartAggregate_create(self, user_id, t, eid) ==
    IF self.user_id # None
    THEN Raise(self, "ValueError: Cart already created")
    ELSE Return(Cart_apply_event(self,
            CartEvent("CartCreated", eid, self, t, [user_id |-> user_id]),
            TRUE))

\* variant: items are added whatever the status of the cart
CartAggregate_add_item_AnyStatus(self, product_id, product_name, price, quantity, t, eid) ==
    IF quantity <= 0
    THEN Raise(self, "ValueError: Quantity must be positive")
    ELSE IF price < 0
    THEN Raise(self, "ValueError: Price cannot be negative")
    ELSE Return(Cart_apply_event(self,
            CartEvent("ItemAddedToCart", eid, self, t,
                      [product_id |-> product_id, product_name |-> product_name,
                       price |-> price, quantity |-> quantity]),
            TRUE))

CartAggregate_add_item(self, product_id, product_name, price, quantity, t, eid) ==
    IF self.status # "PENDING"
    THEN Raise(self, "ValueError: Cannot add items to cart with status")
    ELSE IF quantity <= 0
    THEN Raise(self, "ValueError: Quantity must be positive")
    ELSE IF price < 0
    THEN Raise(self, "ValueError: Price cannot be negative")
    ELSE Return(Cart_apply_event(self,
            CartEvent("ItemAddedToCart", eid, self, t,
                      [product_id |-> product_id, product_name |-> product_name,
                       price |-> price, quantity |-> quantity]),
            TRUE))

CartAggregate_remove_item_NoPresenceCheck(self, product_id, t, eid) ==
    IF self.status # "PENDING"
    THEN Raise(self, "ValueError: Cannot remove items from cart with status")
    ELSE Return(Cart_apply_event(self,
            CartEvent("ItemRemovedFromCart", eid, self, t,
                      [product_id |-> product_id]),
            TRUE))

CartAggregate_remove_item(self, product_id, t, eid) ==
    IF self.status # "PENDING"
    THEN Raise(self, "ValueError: Cannot remove items from cart with status")
    ELSE IF product_id \notin DictKeys(self.items)
    THEN Raise(self, "ValueError: Product not found in cart")
    ELSE Return(Cart_apply_event(self,
            CartEvent("ItemRemovedFromCart", eid, self, t,
                      [product_id |-> product_id]),
            TRUE))

CartAggregate_change_quantity(self, product_id, new_quantity, t, eid) ==
    IF self.status # "PENDING"
    THEN Raise(self, "ValueError: Cannot change quantity in cart with status")
    ELSE IF product_id \notin DictKeys(self.items)
    THEN Raise(self, "ValueError: Product not found in cart")
    ELSE IF new_quantity <= 0
    THEN Raise(self, "ValueError: Quantity must be positive")
    ELSE Return(Cart_apply_event(self,
            CartEvent("ItemQuantityChanged", eid, self, t,
                      [product_id |-> product_id, new_quantity |-> new_quantity,
                       old_quantity |-> DictGet(self.items, product_id).quantity]),
            TRUE))

Cart_total_amount(self) ==
    LET values == DictValues(self.items)
    IN SeqSum([i \in DOMAIN values |-> total_price(values[i])])

Cart_item_count(self) ==
    LET values == DictValues(self.items)
    IN SeqSum([i \in DOMAIN values |-> values[i].quantity])

CartAggregate_checkout_ZeroTotal(self, order_id, t, eid) ==
    IF self.status # "PENDING"
    THEN Raise(self, "ValueError: Cannot checkout cart with status")
    ELSE IF self.items = EmptyDict
    THEN Raise(self, "ValueError: Cannot checkout empty cart")
    ELSE Return(Cart_apply_event(self,
            CartEvent("CartCheckedOut", eid, self, t,
                      [order_id |-> order_id, total_amount |-> 0]),
            TRUE))

CartAggregate_checkout(self, order_id, t, eid) ==
    IF self.status # "PENDING"
    THEN Raise(self, "ValueError: Cannot checkout cart with status")
    ELSE IF self.items = EmptyDict
    THEN Raise(self, "ValueError: Cannot checkout empty cart")
    ELSE Return(Cart_apply_event(self,
            CartEvent("CartCheckedOut", eid, self, t,
                      [order_id |-> order_id,
                       total_amount |-> Cart_total_amount(self)]),
            TRUE))

CartAggregate_expire_NoStatusCheck(self, reason, t, eid) ==
    Return(Cart_apply_event(self,
            CartEvent("CartExpired", eid, self, t, [reason |-> reason]),
            TRUE))

CartAggregate_expire(self, reason, t, eid) ==
    IF self.status # "PENDING"
    THEN Raise(self, "ValueError: Cannot expire cart with status")
    ELSE Return(Cart_apply_event(self,
            CartEvent("CartExpired", eid, self, t, [reason |-> reason]),
            TRUE))

\* load_aggregate's loop: a fresh aggregate with the events applied, is_new=False
RECURSIVE Cart_replay(_, _)
Cart_replay(self, events) ==
    IF events = <<>> THEN self
    ELSE Cart_replay(Cart_apply_event(self, Head(events), FALSE), Tail(events))

----------------------------------------------------------------------------
(* Product aggregate: src/lab_3/app/domain/product/aggregate.py *)

StockReservation(cart_id, quantity, reserved_until) ==
    [cart_id |-> cart_id, quantity |-> quantity, reserved_until |-> reserved_until]

\* datetime.now(timezone.utc) > self.reserved_until
is_expired(reservation, t) == t > reservation.reserved_until

ProductAggregate(product_id, t) ==
    [product_id |-> product_id,
     name |-> None,
     price |-> 0,
     description |-> "",
     total_stock |-> 0,
     reservations |-> EmptyDict,
     version |-> 0,
     created_at |-> t,
     uncommitted_events |-> <<>>]

Product_apply_ProductCreated(self, event) ==
    [self EXCEPT !.name = event.name,
                 !.price = event.price,
                 !.total_stock = event.initial_stock,
                 !.description = event.description,
                 !.created_at = event.occurred_at,
                 !.version = event.aggregate_version]

Product_apply_ProductStockReserved_TakesStock(self, event) ==
    [self EXCEPT !.reservations = DictPut(self.reservations, event.cart_id,
                        StockReservation(event.cart_id, event.quantity,
                                         event.reserved_until)),
                 !.total_stock = @ - event.quantity,
                 !.version = event.aggregate_version]

Product_apply_ProductStockReserved(self, event) ==
    [self EXCEPT !.reservations = DictPut(self.reservations, event.cart_id,
                        StockReservation(event.cart_id, event.quantity,
                                         event.reserved_until)),
                 !.version = event.aggregate_version]

\* variant: the reservation stays in the dict
Product_apply_ProductStockReservationReleased_Keeps(self, event) ==
    [self EXCEPT !.version = event.aggregate_version]

Product_apply_ProductStockReservationReleased(self, event) ==
    [self EXCEPT !.reservations = DictPop(self.reservations, event.cart_id),
                 !.version = event.aggregate_version]

Product_apply_ProductStockIncreased(self, event) ==
    [self EXCEPT !.total_stock = @ + event.quantity,
                 !.version = event.aggregate_version]

Product_apply_ProductStockDecreased(self, event) ==
    [self EXCEPT !.total_stock = @ - event.quantity,
                 !.version = event.aggregate_version]

Product_apply_ProductPriceChanged(self, event) ==
    [self EXCEPT !.price = event.new_price,
                 !.version = event.aggregate_version]

Product_apply_ProductUpdated(self, event) ==
    [self EXCEPT !.name = IF event.name # None THEN event.name ELSE @,
                 !.description = IF event.description # None
                                 THEN event.description ELSE @,
                 !.version = event.aggregate_version]

Product_handler(self, event) ==
    CASE event.event_type = "ProductCreated" -> Product_apply_ProductCreated(self, event)
      [] event.event_type = "ProductStockReserved" -> Product_apply_ProductStockReserved(self, event)
      [] event.event_type = "ProductStockReservationReleased" -> Product_apply_ProductStockReservationReleased(self, event)
      [] event.event_type = "ProductStockIncreased" -> Product_apply_ProductStockIncreased(self, event)
      [] event.event_type = "ProductStockDecreased" -> Product_apply_ProductStockDecreased(self, event)
      [] event.event_type = "ProductPriceChanged" -> Product_apply_ProductPriceChanged(self, event)
      [] event.event_type = "ProductUpdated" -> Product_apply_ProductUpdated(self, event)

Product_apply_event(self, event, is_new) ==
    LET applied == Product_handler(self, event)
    IN IF is_new
       THEN [applied EXCEPT !.uncommitted_events = Append(@, event)]
       ELSE applied

\* variant: the event carries the version the aggregate already has
ProductEvent_VersionNotAdvanced(event_type, event_id, self, t, payload) ==
    [event_type |-> event_type,
     event_id |-> <<event_id, self.version + 1>>,
     aggregate_id |-> self.product_id,
     aggregate_version |-> self.version,
     occurred_at |-> t] @@ payload

ProductEvent(event_type, event_id, self, t, payload) ==
    [event_type |-> event_type,
     event_id |-> <<event_id, self.version + 1>>,   \* uuid4()
     aggregate_id |-> self.product_id,
     aggregate_version |-> self.version + 1,
     occurred_at |-> t] @@ payload

ProductAggregate_create(self, name, price, initial_stock, description, t, eid) ==
    IF self.name # None
    THEN Raise(self, "ValueError: Product already created")
    ELSE IF price < 0
    THEN Raise(self, "ValueError: Price cannot be negative")
    ELSE IF initial_stock < 0
    THEN Raise(self, "ValueError: Stock cannot be negative")
    ELSE Return(Product_apply_event(self,
            ProductEvent("ProductCreated", eid, self, t,
                         [name |-> name, price |-> price,
                          initial_stock |-> initial_stock,
                          description |-> description]),
            TRUE))

\* variant: an event is emitted for a cart without reservation too
ProductAggregate_release_reservation_Always(self, cart_id, reason, t, eid) ==
    Product_apply_event(self,
        ProductEvent("ProductStockReservationReleased", eid, self, t,
                     [cart_id |-> cart_id,
                      quantity |-> IF cart_id \in DictKeys(self.reservations)
                                   THEN DictGet(self.reservations, cart_id).quantity
                                   ELSE 0,
                      reason |-> reason]),
        TRUE)

\* returns the aggregate: the method returns None and never raises
ProductAggregate_release_reservation(self, cart_id, reason, t, eid) ==
    IF cart_id \notin DictKeys(self.reservations)
    THEN self
    ELSE Product_apply_event(self,
            ProductEvent("ProductStockReservationReleased", eid, self, t,
                         [cart_id |-> cart_id,
                          quantity |-> DictGet(self.reservations, cart_id).quantity,
                          reason |-> reason]),
            TRUE)

\* the for loop of _release_expired_reservations over expired_carts
RECURSIVE Product_release_each(_, _, _, _)
Product_release_each(self, expired_carts, t, eid) ==
    IF expired_carts = <<>> THEN self
    ELSE Product_release_each(
            ProductAggregate_release_reservation(self, Head(expired_carts),
                                                 "timeout", t, eid),
            Tail(expired_carts), t, eid)

\* variant: nothing that has expired is released
Product_release_expired_reservations_Nothing(self, t, eid) == self

Product_release_expired_reservations(self, t, eid) ==
    LET expired == SelectSeq(DictValues(self.reservations),
                             LAMBDA r : is_expired(r, t))
        expired_carts == [i \in DOMAIN expired |-> expired[i].cart_id]
    IN Product_release_each(self, expired_carts, t, eid)

\* the two properties release the expired reservations before they sum, so
\* reading them changes the aggregate: Product_after_read is the aggregate left
Product_after_read(self, t, eid) == Product_release_expired_reservations(self, t, eid)

Product_reserved_stock(self, t, eid) ==
    LET values == DictValues(Product_after_read(self, t, eid).reservations)
    IN SeqSum([i \in DOMAIN values |-> values[i].quantity])

Product_available_stock(self, t, eid) ==
    self.total_stock - Product_reserved_stock(self, t, eid)

ProductAggregate_reserve_stock_NoStockCheck(self, cart_id, quantity, t, eid) ==
    IF quantity <= 0
    THEN Raise(self, "ValueError: Quantity must be positive")
    ELSE LET cleaned == Product_release_expired_reservations(self, t, eid)
         IN Return(Product_apply_event(cleaned,
                    ProductEvent("ProductStockReserved", eid, cleaned, t,
                                 [cart_id |-> cart_id, quantity |-> quantity,
                                  reserved_until |-> t + reservation_minutes]),
                    TRUE))

ProductAggregate_reserve_stock(self, cart_id, quantity, t, eid) ==
    IF quantity <= 0
    THEN Raise(self, "ValueError: Quantity must be positive")
    ELSE LET cleaned == Product_release_expired_reservations(self, t, eid)
             required_additional == quantity
             available == Product_available_stock(cleaned, t, eid)
         IN IF required_additional > available
            THEN Raise(cleaned, "ValueError: Insufficient stock")
            ELSE Return(Product_apply_event(cleaned,
                    ProductEvent("ProductStockReserved", eid, cleaned, t,
                                 [cart_id |-> cart_id, quantity |-> quantity,
                                  reserved_until |-> t + reservation_minutes]),
                    TRUE))

\* variant: the stock is decreased before the reservation is released
ProductAggregate_checkout_reservation_DecreaseFirst(self, cart_id, order_id, t, eid) ==
    IF cart_id \notin DictKeys(self.reservations)
    THEN Raise(self, "ValueError: No reservation found for cart")
    ELSE LET reservation == DictGet(self.reservations, cart_id)
             decreased == Product_apply_event(self,
                    ProductEvent("ProductStockDecreased", eid, self, t,
                                 [quantity |-> reservation.quantity,
                                  order_id |-> order_id]),
                    TRUE)
         IN Return(ProductAggregate_release_reservation(decreased, cart_id,
                                                        "checkout", t, eid))

ProductAggregate_checkout_reservation(self, cart_id, order_id, t, eid) ==
    IF cart_id \notin DictKeys(self.reservations)
    THEN Raise(self, "ValueError: No reservation found for cart")
    ELSE LET reservation == DictGet(self.reservations, cart_id)
             released == ProductAggregate_release_reservation(self, cart_id,
                                                              "checkout", t, eid)
         IN Return(Product_apply_event(released,
                    ProductEvent("ProductStockDecreased", eid, released, t,
                                 [quantity |-> reservation.quantity,
                                  order_id |-> order_id]),
                    TRUE))

ProductAggregate_increase_stock(self, quantity, t, eid) ==
    IF quantity <= 0
    THEN Raise(self, "ValueError: Quantity must be positive")
    ELSE Return(Product_apply_event(self,
            ProductEvent("ProductStockIncreased", eid, self, t,
                         [quantity |-> quantity]),
            TRUE))

ProductAggregate_change_price(self, new_price, t, eid) ==
    IF new_price < 0
    THEN Raise(self, "ValueError: Price cannot be negative")
    ELSE IF new_price = self.price
    THEN Return(self)
    ELSE Return(Product_apply_event(self,
            ProductEvent("ProductPriceChanged", eid, self, t,
                         [old_price |-> self.price, new_price |-> new_price]),
            TRUE))

ProductAggregate_update_details(self, name, description, t, eid) ==
    IF name = None /\ description = None
    THEN Return(self)
    ELSE Return(Product_apply_event(self,
            ProductEvent("ProductUpdated", eid, self, t,
                         [name |-> name, description |-> description]),
            TRUE))

RECURSIVE Product_replay(_, _)
Product_replay(self, events) ==
    IF events = <<>> THEN self
    ELSE Product_replay(Product_apply_event(self, Head(events), FALSE), Tail(events))

----------------------------------------------------------------------------
(* SpecDomain: one aggregate object and the calls a test makes on it.      *)
(* tests/test_cart_aggregate.py and tests/test_product_aggregate.py build  *)
(* one aggregate per test and call its methods one after the other.        *)

Reasons == {"released"}
Stocks == {2}
Prices == {2, 3}

Called(cmd, args, result) ==
    [flip |-> ~last.flip, cmd |-> cmd, args |-> args, raised |-> result.raised]

\* lab_2 is not part of this deployment
NotifierOff ==
    /\ notifications = <<>>
    /\ celery_queue = <<>>
    /\ workers = <<>>
    /\ delivered = <<>>

Lab3Off ==
    /\ cart_events = {}
    /\ product_events = {}
    /\ cart_read_model = EmptyDict
    /\ product_read_model = EmptyDict
    /\ procs = <<>>
    /\ saves = {}
    /\ started = 0
    /\ running = FALSE

SystemInit ==
    /\ Lab3Off
    /\ NotifierOff

DomainInit ==
    /\ now = 0
    /\ focus \in {"cart", "product"}
    /\ cart = CartAggregate("c1")
    /\ product = ProductAggregate("P001", 0)
    /\ last = [flip |-> FALSE, cmd |-> "none", args |-> <<>>, raised |-> None]
    /\ SystemInit

CartCall(cmd, args, result) ==
    /\ focus = "cart"
    /\ Len(cart.uncommitted_events) < MaxEvents
    /\ cart' = result.agg
    /\ last' = Called(cmd, args, result)
    /\ UNCHANGED <<now, focus, product, systemVars>>

ProductCall(cmd, args, result) ==
    /\ focus = "product"
    /\ Len(product.uncommitted_events) < MaxEvents
    /\ product' = result.agg
    /\ last' = Called(cmd, args, result)
    /\ UNCHANGED <<now, focus, cart, systemVars>>

TestCartCreate ==
    \E user_id \in UserIds :
        CartCall("create", [user_id |-> user_id],
                 CartAggregate_create(cart, user_id, now, cart.version + 1))

TestCartAddItem ==
    \E product_id \in ProductIds, offer \in Offers, quantity \in Quantities :
        CartCall("add_item",
                 [product_id |-> product_id, product_name |-> offer.name,
                  price |-> offer.price, quantity |-> quantity],
                 CartAggregate_add_item(cart, product_id, offer.name, offer.price,
                                        quantity, now, cart.version + 1))

TestCartRemoveItem ==
    \E product_id \in ProductIds :
        CartCall("remove_item", [product_id |-> product_id],
                 CartAggregate_remove_item(cart, product_id, now, cart.version + 1))

TestCartChangeQuantity ==
    \E product_id \in ProductIds, new_quantity \in Quantities :
        CartCall("change_quantity",
                 [product_id |-> product_id, new_quantity |-> new_quantity],
                 CartAggregate_change_quantity(cart, product_id, new_quantity,
                                               now, cart.version + 1))

TestCartCheckout ==
    \E order_id \in OrderIds :
        CartCall("checkout", [order_id |-> order_id],
                 CartAggregate_checkout(cart, order_id, now, cart.version + 1))

TestCartExpire ==
    CartCall("expire", [reason |-> "15_minute_timeout"],
             CartAggregate_expire(cart, "15_minute_timeout", now, cart.version + 1))

TestProductCreate ==
    \E price \in Prices, initial_stock \in Stocks :
        ProductCall("create", [price |-> price, initial_stock |-> initial_stock],
                    ProductAggregate_create(product, "Laptop", price, initial_stock,
                                            "", now, product.version + 1))

TestProductReserveStock ==
    \E cart_id \in CartIds, quantity \in Quantities :
        ProductCall("reserve_stock", [cart_id |-> cart_id, quantity |-> quantity],
                    ProductAggregate_reserve_stock(product, cart_id, quantity,
                                                   now, product.version + 1))

TestProductReleaseReservation ==
    \E cart_id \in CartIds, reason \in Reasons :
        ProductCall("release_reservation", [cart_id |-> cart_id],
                    Return(ProductAggregate_release_reservation(
                               product, cart_id, reason, now, product.version + 1)))

TestProductCheckoutReservation ==
    \E cart_id \in CartIds, order_id \in OrderIds :
        ProductCall("checkout_reservation", [cart_id |-> cart_id],
                    ProductAggregate_checkout_reservation(
                        product, cart_id, order_id, now, product.version + 1))

TestProductIncreaseStock ==
    \E quantity \in Quantities :
        ProductCall("increase_stock", [quantity |-> quantity],
                    ProductAggregate_increase_stock(product, quantity, now,
                                                    product.version + 1))

TestProductChangePrice ==
    \E new_price \in Prices :
        ProductCall("change_price", [new_price |-> new_price],
                    ProductAggregate_change_price(product, new_price, now,
                                                  product.version + 1))

TestProductUpdateDetails ==
    \E name \in {None, "Laptop Pro"} :
        ProductCall("update_details", [name |-> name],
                    ProductAggregate_update_details(product, name, None, now,
                                                    product.version + 1))

\* assert aggregate.available_stock == ...: the read releases what has expired
TestProductReadStock ==
    ProductCall("available_stock", <<>>,
                Return(Product_after_read(product, now, product.version + 1)))

\* the cart tests never read the clock; the product's reservations depend on it
TestClock ==
    /\ focus = "product"
    /\ now < MaxTicks * TickMinutes
    /\ now' = now + TickMinutes
    /\ UNCHANGED <<domainVars, systemVars>>

DomainNext ==
    \/ TestCartCreate
    \/ TestCartAddItem
    \/ TestCartRemoveItem
    \/ TestCartChangeQuantity
    \/ TestCartCheckout
    \/ TestCartExpire
    \/ TestProductCreate
    \/ TestProductReserveStock
    \/ TestProductReleaseReservation
    \/ TestProductCheckoutReservation
    \/ TestProductIncreaseStock
    \/ TestProductChangePrice
    \/ TestProductUpdateDetails
    \/ TestProductReadStock
    \/ TestClock

SpecDomain == DomainInit /\ [][DomainNext]_vars

----------------------------------------------------------------------------
(* Event stores: src/lab_3/app/infrastructure/repositories/event_store.py  *)
(* and product_event_store.py over tables cart_events and product_events.  *)
(* A table is the set of its committed rows; the rows a coroutine has      *)
(* inserted but not committed are in its own transaction (field tx).       *)

\* insert(table).values(...): the columns of one row
EventRow(event) ==
    [event_id |-> event.event_id,
     aggregate_id |-> event.aggregate_id,
     aggregate_version |-> event.aggregate_version,
     event_type |-> event.event_type,
     event_data |-> event,       \* event.to_dict(), read back by event_class(**data)
     occurred_at |-> event.occurred_at]

RowsOf(table, aggregate_id) == {row \in table : row.aggregate_id = aggregate_id}

\* ORDER BY aggregate_version ASC
RECURSIVE OrderByVersion(_)
OrderByVersion(rows) ==
    IF rows = {} THEN <<>>
    ELSE LET first == CHOOSE r \in rows :
                        \A q \in rows : r.aggregate_version <= q.aggregate_version
         IN <<first>> \o OrderByVersion(rows \ {first})

get_events(table, aggregate_id) ==
    LET rows == OrderByVersion(RowsOf(table, aggregate_id))
    IN [i \in DOMAIN rows |-> rows[i].event_data]

\* ORDER BY aggregate_version DESC LIMIT 1; 0 when there is no row
get_current_version(table, aggregate_id) ==
    LET rows == RowsOf(table, aggregate_id)
    IN IF rows = {} THEN 0
       ELSE (CHOOSE r \in rows :
                \A q \in rows : q.aggregate_version <= r.aggregate_version
            ).aggregate_version

\* load_aggregate: found is FALSE where the method returns None
Cart_load_aggregate(table, cart_id) ==
    LET events == get_events(table, cart_id)
    IN [found |-> events # <<>>,
        agg |-> Cart_replay(CartAggregate(cart_id), events)]

Product_load_aggregate(table, product_id, t) ==
    LET events == get_events(table, product_id)
    IN [found |-> events # <<>>,
        agg |-> Product_replay(ProductAggregate(product_id, t), events)]

\* the unique index idx_aggregate_version on (aggregate_id, aggregate_version)
SameKey(r, q) ==
    r.aggregate_id = q.aggregate_id /\ r.aggregate_version = q.aggregate_version

UniqueViolation_NoIndex(table, row) == FALSE

UniqueViolation(table, row) == \E q \in table : SameKey(q, row)

----------------------------------------------------------------------------
(* Read models: read_model.py and product_read_model.py *)

\* the items list the use cases build from aggregate.items.values()
CartItemsJson(aggregate) ==
    LET values == DictValues(aggregate.items)
    IN [i \in DOMAIN values |->
            [product_id |-> values[i].product_id,
             product_name |-> values[i].product_name,
             price |-> values[i].price,
             quantity |-> values[i].quantity,
             total_price |-> total_price(values[i])]]

Cart_create_projection(rm, cart_id, user_id, created_at) ==
    [c \in DOMAIN rm \cup {cart_id} |->
        IF c = cart_id
        THEN [user_id |-> user_id, status |-> "PENDING", items |-> <<>>,
              total_amount |-> 0, item_count |-> 0, version |-> 1,
              created_at |-> created_at, last_activity |-> created_at]
        ELSE rm[c]]

\* UPDATE ... WHERE cart_id = :cart_id changes nothing when the row is absent
Cart_update_projection(rm, aggregate) ==
    IF aggregate.cart_id \notin DOMAIN rm THEN rm
    ELSE [rm EXCEPT ![aggregate.cart_id] =
            [@ EXCEPT !.status = aggregate.status,
                      !.items = CartItemsJson(aggregate),
                      !.total_amount = Cart_total_amount(aggregate),
                      !.item_count = Cart_item_count(aggregate),
                      !.version = aggregate.version,
                      !.last_activity = aggregate.last_activity]]

Product_create_projection(rm, product_id, name, price, description, total_stock) ==
    [q \in DOMAIN rm \cup {product_id} |->
        IF q = product_id
        THEN [name |-> name, price |-> price, description |-> description,
              total_stock |-> total_stock, reserved_stock |-> 0,
              available_stock |-> total_stock, version |-> 1]
        ELSE rm[q]]

\* the keyword arguments are evaluated in order: total_stock, reserved_stock,
\* available_stock, version; reading reserved_stock releases what has expired
Product_update_projection(rm, aggregate, t, eid) ==
    LET read == Product_after_read(aggregate, t, eid)
    IN IF aggregate.product_id \notin DOMAIN rm THEN rm
       ELSE [rm EXCEPT ![aggregate.product_id] =
               [@ EXCEPT !.name = aggregate.name,
                         !.price = aggregate.price,
                         !.description = aggregate.description,
                         !.total_stock = aggregate.total_stock,
                         !.reserved_stock = Product_reserved_stock(aggregate, t, eid),
                         !.available_stock = Product_available_stock(read, t, eid),
                         !.version = read.version]]

----------------------------------------------------------------------------
(* Spec: the service. Each member of Procs is a request handler coroutine; *)
(* an action is the code between two awaits.                               *)
(*   AddItemToCartIntegratedUseCase  application/cart/add_item_integrated.py *)
(*   AddItemToCartUseCase            application/cart/add_item.py          *)
(*   ReserveStockUseCase, ReleaseReservationUseCase                        *)
(*                                   application/product/reserve_stock.py  *)

Procs == {1, 2}

\* the name and price the products service answers GET /products/{id} with
HttpOffers == {o \in Offers : o.price >= 0}

\* AddItemToCart(cart_id, product_id, quantity: gt 0), to either endpoint:
\* for a product in the catalogue, for one that is not, and to the first
\* version of the endpoint, which asks the products service over HTTP
Requests ==
    [kind : {"AddItemIntegrated"}, cart_id : CartIds, product_id : {"P001"},
     quantity : Quantities \ {0}, offer : {None}]
    \cup
    [kind : {"AddItemIntegrated"}, cart_id : {"c1"}, product_id : {"P002"},
     quantity : {1}, offer : {None}]
    \cup
    [kind : {"AddItem"}, cart_id : {"c1"}, product_id : {"P001"},
     quantity : {1}, offer : HttpOffers]

Idle ==
    [pc |-> "idle", n |-> 0, req |-> None, uc |-> None, attempt |-> 0,
     at |-> 0, found |-> FALSE, loaded_version |-> 0, aggregate |-> None,
     events |-> <<>>,
     expected_version |-> 0, current_version |-> 0, tx |-> <<>>,
     product |-> None, error |-> None, result |-> None,
     products_to_checkout |-> <<>>, warnings |-> <<>>,
     products_to_release |-> <<>>, expired_cart_ids |-> <<>>,
     listed |-> <<>>]     \* what get_expired_carts returned, kept for the properties

\* what stands for the uuid4 values of one command invocation
Eid(self) == [n |-> self.n, uc |-> self.uc, attempt |-> self.attempt]

OnProduct(self) ==
    self.uc \in {"ReserveStock", "ReleaseReservation", "CheckoutReservation",
                 "IncreaseStock"}

\* ExpireCartUseCase, called by itself or by the scheduler's tick
Expiring(self) == self.req.kind \in {"ExpireCart", "ExpirationTick"}

\* a use case called by itself, as the coordinators and the scheduler call it
\* (ProductUseCase), or an endpoint that loads, commands and saves once
Direct(self) == self.req.kind \in {"ProductUseCase", "Restock", "CreateCart"}

\* the product the use case at hand works on
ProductIdOf(self) ==
    CASE self.req.kind = "CheckoutIntegrated" -> self.products_to_checkout[1][1]
      [] Expiring(self) -> self.products_to_release[1][1]
      [] OTHER -> self.req.product_id

\* the handler returns: its locals are gone, its answer and the aggregate it
\* last worked on are kept to state the properties
Done(self, result) ==
    [self EXCEPT !.pc = "done", !.result = result, !.tx = <<>>, !.events = <<>>,
                 !.attempt = 0, !.expected_version = 0, !.current_version = 0]

\* variant: the error of the cart step is raised without the rollback
StartRollback_NoRelease(self, error) == Done([self EXCEPT !.error = error], error)

\* _rollback_reservation, entered from the except Exception of execute
StartRollback(self, error) ==
    [self EXCEPT !.uc = "ReleaseReservation", !.attempt = 0, !.pc = "load",
                 !.error = error, !.tx = <<>>]

\* checkout_integrated: the for loop over products_to_checkout
NextProduct(self) ==
    IF self.products_to_checkout = <<>>
    THEN Done(self, "ok")
    ELSE [self EXCEPT !.uc = "CheckoutReservation", !.attempt = 0, !.pc = "load",
                      !.tx = <<>>]

\* variant: the failure of one CheckoutReservation ends the checkout
ProductFailed_Raises(self, error) == Done(self, error)

\* checkout_integrated: except Exception around one CheckoutReservation:
\* the warning is printed and the loop goes on
ProductFailed(self, error) ==
    NextProduct([self EXCEPT
        !.warnings = Append(@, <<self.products_to_checkout[1][1], error>>),
        !.products_to_checkout = Tail(@)])

\* _check_and_expire_carts: the for loop over expired_cart_ids, each turn
\* with its own ExpireCart command
NextCart(self) ==
    IF self.expired_cart_ids = <<>>
    THEN Done(self, "ok")
    ELSE [self EXCEPT !.req.cart_id = self.expired_cart_ids[1],
                      !.expired_cart_ids = Tail(@),
                      !.uc = "ExpireCart", !.attempt = 0, !.pc = "load",
                      !.tx = <<>>, !.products_to_release = <<>>]

\* ExpireCartUseCase.execute returned
ExpireReturned(self) ==
    IF self.req.kind = "ExpirationTick" THEN NextCart(self) ELSE Done(self, "ok")

\* ExpireCartUseCase.execute raised: the tick prints the error and goes on
\* with the next cart, a direct caller gets the error
ExpireRaised(self, error) ==
    IF self.req.kind = "ExpirationTick"
    THEN NextCart([self EXCEPT !.warnings = Append(@, <<self.req.cart_id, error>>)])
    ELSE Done(self, error)

\* ExpireCartUseCase.execute: the for loop over products_to_release
NextRelease(self) ==
    IF self.products_to_release = <<>>
    THEN ExpireReturned(self)
    ELSE [self EXCEPT !.uc = "ReleaseReservation", !.attempt = 0, !.pc = "load",
                      !.tx = <<>>]

\* variant: the failure of a release is raised by the use case that called it
ReleaseFailed_Raises(self, error) ==
    IF Expiring(self) THEN ExpireRaised(self, error) ELSE Done(self, error)

\* except Exception around the ReleaseReservation of the coordinated remove
\* and of ExpireCart: the warning is printed, nothing is raised
ReleaseFailed(self, error) ==
    LET warned == [self EXCEPT !.warnings = Append(@, <<ProductIdOf(self), error>>)]
    IN IF Expiring(self)
       THEN NextRelease([warned EXCEPT !.products_to_release = Tail(@)])
       ELSE Done(warned, "ok")

\* the use case returned normally
Succeeded(self) ==
    CASE Direct(self) -> Done(self, "ok")
      [] self.req.kind = "CheckoutIntegrated" ->
            IF self.uc = "CheckoutCart"
            THEN NextProduct(self)
            ELSE NextProduct([self EXCEPT !.products_to_checkout = Tail(@)])
      [] self.req.kind = "RemoveIntegrated" ->
            IF self.uc = "RemoveItemFromCart"
            THEN [self EXCEPT !.uc = "ReleaseReservation", !.attempt = 0,
                              !.pc = "load"]
            ELSE Done(self, "ok")
      [] Expiring(self) ->
            IF self.uc = "ExpireCart"
            THEN NextRelease(self)
            ELSE NextRelease([self EXCEPT !.products_to_release = Tail(@)])
      [] OTHER ->
            CASE self.uc = "ReserveStock" ->
                    [self EXCEPT !.uc = "AddItemToCart", !.attempt = 0,
                                 !.pc = "load"]
              [] self.uc = "AddItemToCart" -> Done(self, "ok")
              [] self.uc = "ReleaseReservation" -> Done(self, self.error)

\* variant: a failed ReserveStock is passed over and the cart step runs
RaisedValueError_ReserveIgnored(self, message) ==
    CASE Direct(self) -> Done(self, message)
      [] self.req.kind = "CheckoutIntegrated" ->
            IF self.uc = "CheckoutCart"
            THEN Done(self, message)
            ELSE ProductFailed(self, message)
      [] self.req.kind = "RemoveIntegrated" ->
            IF self.uc = "RemoveItemFromCart"
            THEN Done(self, message)
            ELSE ReleaseFailed(self, message)
      [] Expiring(self) ->
            IF self.uc = "ExpireCart"
            THEN ExpireRaised(self, message)
            ELSE ReleaseFailed(self, message)
      [] OTHER ->
            CASE self.uc = "ReserveStock" ->
                    [self EXCEPT !.uc = "AddItemToCart", !.attempt = 0,
                                 !.pc = "load"]
              [] self.uc = "AddItemToCart" ->
                    IF self.req.kind = "AddItemIntegrated"
                    THEN StartRollback(self, message)
                    ELSE Done(self, message)
              [] self.uc = "ReleaseReservation" -> Done(self, self.error)

\* _execute_once raised ValueError
RaisedValueError(self, message) ==
    CASE Direct(self) -> Done(self, message)
      [] self.req.kind = "CheckoutIntegrated" ->
            IF self.uc = "CheckoutCart"
            THEN Done(self, message)
            ELSE ProductFailed(self, message)
      [] self.req.kind = "RemoveIntegrated" ->
            IF self.uc = "RemoveItemFromCart"
            THEN Done(self, message)
            ELSE ReleaseFailed(self, message)
      [] Expiring(self) ->
            IF self.uc = "ExpireCart"
            THEN ExpireRaised(self, message)
            ELSE ReleaseFailed(self, message)
      [] OTHER ->
            CASE self.uc = "ReserveStock" ->
                    Done(self, "ValueError: Cannot reserve stock")
              [] self.uc = "AddItemToCart" ->
                    IF self.req.kind = "AddItemIntegrated"
                    THEN StartRollback(self, message)
                    ELSE Done(self, message)
              [] self.uc = "ReleaseReservation" -> Done(self, self.error)

\* the endpoints that call save_events outside a retry loop
Retries(self) ==
    self.req.kind \notin {"Restock", "CreateCart"} /\ self.uc # "ExpireCart"

\* variant: the first ConcurrencyException is raised to the caller
RaisedConcurrencyException_NoRetry(self) ==
    IF Direct(self)
    THEN Done(self, "ConcurrencyException")
    ELSE RaisedValueError(self, "ConcurrencyException")

\* _execute_once raised ConcurrencyException: the for attempt in range(max_retries)
RaisedConcurrencyException(self) ==
    IF Retries(self) /\ self.attempt # max_retries - 1
    THEN [self EXCEPT !.attempt = @ + 1, !.pc = "load", !.tx = <<>>]
    ELSE CASE Direct(self) -> Done(self, "ConcurrencyException")
           [] self.req.kind = "CheckoutIntegrated" ->
                IF self.uc = "CheckoutCart"
                THEN Done(self, "ConcurrencyException")
                ELSE ProductFailed(self, "ConcurrencyException")
           [] self.req.kind = "RemoveIntegrated" ->
                IF self.uc = "RemoveItemFromCart"
                THEN Done(self, "ConcurrencyException")
                ELSE ReleaseFailed(self, "ConcurrencyException")
           [] Expiring(self) ->
                IF self.uc = "ExpireCart"
                THEN ExpireRaised(self, "ConcurrencyException")
                ELSE ReleaseFailed(self, "ConcurrencyException")
           [] OTHER ->
                CASE self.uc = "ReserveStock" -> Done(self, "ConcurrencyException")
                  [] self.uc = "AddItemToCart" ->
                        IF self.req.kind = "AddItemIntegrated"
                        THEN StartRollback(self, "ConcurrencyException")
                        ELSE Done(self, "ConcurrencyException")
                  [] self.uc = "ReleaseReservation" -> Done(self, self.error)

\* after the command: get_uncommitted_events and the call of save_events
\* (which returns at once when there is nothing to save)
CallSave(self, aggregate) ==
    LET events == aggregate.uncommitted_events
        loaded == [self EXCEPT !.aggregate = aggregate, !.events = events,
                       !.expected_version = aggregate.version - Len(events)]
    IN IF events = <<>>
       THEN IF self.uc = "ReleaseReservation"
            THEN Succeeded(loaded)
            ELSE [loaded EXCEPT !.pc = "project"]
       ELSE [loaded EXCEPT !.pc = "check_version"]

SaveRecord(self, table, ok) ==
    [table |-> table,
     aggregate_id |-> self.events[1].aggregate_id,
     expected_version |-> self.expected_version,
     current_version |-> self.current_version,
     ok |-> ok,
     eid |-> Eid(self),
     count |-> Len(self.events)]

StartupEid == [n |-> 0, uc |-> "startup", attempt |-> 0]

\* the database after startup: initialize_products has created the sample
\* product (products_service.py) and one cart has been created (CreateCartUseCase)
SampleProduct ==
    ProductAggregate_create(ProductAggregate("P001", 0), "Laptop", 2, 2, "",
                            0, StartupEid).agg

SampleCart ==
    CartAggregate_create(CartAggregate("c1"), "user_123", 0, StartupEid).agg

Init ==
    /\ now = 0
    /\ focus = "service"
    /\ cart = CartAggregate("c1")
    /\ product = ProductAggregate("P001", 0)
    /\ last = [flip |-> FALSE, cmd |-> "none", args |-> <<>>, raised |-> None]
    /\ product_events = {EventRow(SampleProduct.uncommitted_events[i]) :
                            i \in DOMAIN SampleProduct.uncommitted_events}
    /\ product_read_model =
            Product_create_projection(<<>>, "P001", SampleProduct.name,
                                      SampleProduct.price, "",
                                      SampleProduct.total_stock)
    /\ cart_events = {EventRow(SampleCart.uncommitted_events[i]) :
                            i \in DOMAIN SampleCart.uncommitted_events}
    /\ cart_read_model =
            Cart_create_projection(<<>>, "c1", SampleCart.user_id,
                                   SampleCart.created_at)
    /\ procs = [p \in Procs |-> Idle]
    /\ saves = {}
    /\ started = 0
    /\ running = FALSE
    /\ NotifierOff

Become(p, self) == procs' = [procs EXCEPT ![p] = self]

\* the handler of a request at its first await
Start(req, n) ==
    [Idle EXCEPT !.n = n, !.req = req,
        !.pc = CASE req.kind = "AddItemIntegrated" -> "get_product"
                 [] req.kind = "ExpirationTick" -> "get_expired_carts"
                 [] OTHER -> "load",
        !.uc = CASE req.kind = "AddItemIntegrated" -> None
                 [] req.kind = "AddItem" -> "AddItemToCart"
                 [] req.kind = "ProductUseCase" -> req.uc
                 [] req.kind = "Restock" -> "IncreaseStock"
                 [] req.kind = "CreateCart" -> "CreateCart"
                 [] req.kind = "CheckoutIntegrated" -> "CheckoutCart"
                 [] req.kind = "RemoveIntegrated" -> "RemoveItemFromCart"
                 [] req.kind = "ExpireCart" -> "ExpireCart"
                 [] req.kind = "ExpirationTick" -> "ExpireCart",
        !.product = req.offer]

\* a request out of a set arrives and its handler starts
AcceptUpTo(p, requests, limit) ==
    /\ procs[p].pc \in {"idle", "done"}
    /\ \A q \in Procs : q < p => procs[q].pc # "idle"   \* handlers are anonymous
    /\ started < limit
    /\ \E req \in requests : Become(p, Start(req, started + 1))
    /\ started' = started + 1
    /\ UNCHANGED <<now, running, notifierVars, domainVars, cart_events, product_events,
                   cart_read_model, product_read_model, saves>>

AcceptFrom(p, requests) == AcceptUpTo(p, requests, MaxRequests)

Accept(p) == AcceptFrom(p, Requests)

\* execute, step 1: product_read_model_repo.get_product
Integrated_get_product(p) ==
    LET self == procs[p]
    IN /\ self.pc = "get_product"
       /\ IF self.req.product_id \notin DOMAIN product_read_model
          THEN Become(p, Done(self, "ProductNotFoundError"))
          ELSE Become(p, [self EXCEPT
                    !.product = [name |-> product_read_model[self.req.product_id].name,
                                 price |-> product_read_model[self.req.product_id].price],
                    !.uc = "ReserveStock", !.attempt = 0, !.pc = "load"])
       /\ UNCHANGED <<now, running, notifierVars, domainVars, cart_events, product_events,
                      cart_read_model, product_read_model, saves, started>>

\* ReserveStockUseCase._execute_once up to its first await inside save_events
ReserveStock_load(p) ==
    LET self == procs[p]
        loaded == Product_load_aggregate(product_events, self.req.product_id, now)
        called == ProductAggregate_reserve_stock(loaded.agg, self.req.cart_id,
                                                 self.req.quantity, now, Eid(self))
        here == [self EXCEPT !.at = now, !.found = loaded.found,
                             !.loaded_version = loaded.agg.version]
    IN /\ self.pc = "load" /\ self.uc = "ReserveStock"
       /\ IF ~loaded.found
          THEN Become(p, RaisedValueError(here, "ValueError: Product not found"))
          ELSE IF Raised(called)
          THEN Become(p, RaisedValueError([here EXCEPT !.aggregate = called.agg],
                                          called.raised))
          ELSE Become(p, CallSave(here, called.agg))
       /\ UNCHANGED <<now, running, notifierVars, domainVars, cart_events, product_events,
                      cart_read_model, product_read_model, saves, started>>

\* the reason each caller of ReleaseReservationUseCase puts in its command
ReleaseReason(self) ==
    CASE self.req.kind = "AddItemIntegrated" -> "cart_operation_failed"
      [] self.req.kind = "RemoveIntegrated" -> "item_removed"
      [] Expiring(self) -> "cart_expired"
      [] OTHER -> self.req.reason

\* ReleaseReservationUseCase._execute_once up to its first await after the load
ReleaseReservation_load(p) ==
    LET self == procs[p]
        loaded == Product_load_aggregate(product_events, ProductIdOf(self), now)
        released == ProductAggregate_release_reservation(
                        loaded.agg, self.req.cart_id, ReleaseReason(self),
                        now, Eid(self))
        here == [self EXCEPT !.at = now, !.found = loaded.found,
                             !.loaded_version = loaded.agg.version]
    IN /\ self.pc = "load" /\ self.uc = "ReleaseReservation"
       /\ IF ~loaded.found
          THEN Become(p, RaisedValueError(here, "ValueError: Product not found"))
          ELSE Become(p, CallSave(here, released))
       /\ UNCHANGED <<now, running, notifierVars, domainVars, cart_events, product_events,
                      cart_read_model, product_read_model, saves, started>>

\* _execute_cart_operation / AddItemToCartUseCase._execute_once up to the
\* first await inside save_events
AddItemToCart_load(p) ==
    LET self == procs[p]
        loaded == Cart_load_aggregate(cart_events, self.req.cart_id)
        called == CartAggregate_add_item(loaded.agg, self.req.product_id,
                                         self.product.name, self.product.price,
                                         self.req.quantity, now, Eid(self))
        here == [self EXCEPT !.at = now, !.found = loaded.found,
                             !.loaded_version = loaded.agg.version]
    IN /\ self.pc = "load" /\ self.uc = "AddItemToCart"
       /\ IF ~loaded.found
          THEN Become(p, RaisedValueError(here, "ValueError: Cart not found"))
          ELSE IF Raised(called)
          THEN Become(p, RaisedValueError([here EXCEPT !.aggregate = called.agg],
                                          called.raised))
          ELSE Become(p, CallSave(here, called.agg))
       /\ UNCHANGED <<now, running, notifierVars, domainVars, cart_events, product_events,
                      cart_read_model, product_read_model, saves, started>>

\* save_events: current_version = await self._get_current_version(aggregate_id)
save_events_check_version(p, table, name) ==
    LET self == procs[p]
        current == get_current_version(table, self.events[1].aggregate_id)
        checked == [self EXCEPT !.current_version = current]
    IN /\ self.pc = "check_version"
       /\ IF current # self.expected_version
          THEN /\ Become(p, RaisedConcurrencyException(checked))
               /\ saves' = saves \cup {SaveRecord(checked, name, FALSE)}
          ELSE /\ Become(p, [checked EXCEPT !.pc = "insert"])
               /\ UNCHANGED saves
       /\ UNCHANGED <<now, running, notifierVars, domainVars, cart_events, product_events,
                      cart_read_model, product_read_model, started>>

\* save_events: one await self.session.execute(insert ...). The insert waits
\* while another transaction holds an uncommitted row with the same key.
save_events_insert(p, table, name) ==
    LET self == procs[p]
        row == EventRow(self.events[Len(self.tx) + 1])
    IN /\ self.pc = "insert"
       /\ \A q \in Procs \ {p} :
             \A i \in DOMAIN procs[q].tx : ~SameKey(procs[q].tx[i], row)
       /\ IF UniqueViolation(table, row)
          THEN \* IntegrityError: rollback, raise ConcurrencyException
               /\ Become(p, RaisedConcurrencyException(self))
               /\ saves' = saves \cup {SaveRecord(self, name, FALSE)}
          ELSE /\ Become(p, [self EXCEPT !.tx = Append(@, row),
                                 !.pc = IF Len(self.tx) + 1 = Len(self.events)
                                        THEN "commit" ELSE "insert"])
               /\ UNCHANGED saves
       /\ UNCHANGED <<now, running, notifierVars, domainVars, cart_events, product_events,
                      cart_read_model, product_read_model, started>>

CartStore_check_version(p) ==
    /\ ~OnProduct(procs[p])
    /\ save_events_check_version(p, cart_events, "cart_events")

ProductStore_check_version(p) ==
    /\ OnProduct(procs[p])
    /\ save_events_check_version(p, product_events, "product_events")

CartStore_insert(p) ==
    /\ ~OnProduct(procs[p])
    /\ save_events_insert(p, cart_events, "cart_events")

ProductStore_insert(p) ==
    /\ OnProduct(procs[p])
    /\ save_events_insert(p, product_events, "product_events")

\* save_events: await self.session.commit()
CartStore_commit(p) ==
    LET self == procs[p]
    IN /\ self.pc = "commit" /\ ~OnProduct(self)
       /\ cart_events' = cart_events \cup {self.tx[i] : i \in DOMAIN self.tx}
       /\ saves' = saves \cup {SaveRecord(self, "cart_events", TRUE)}
       /\ Become(p, [self EXCEPT !.tx = <<>>, !.pc = "project"])
       /\ UNCHANGED <<now, running, notifierVars, domainVars, product_events, cart_read_model,
                      product_read_model, started>>

\* variant: the rows become visible one by one, the first with the commit
ProductStore_commit_FirstRowOnly(p) ==
    LET self == procs[p]
    IN /\ self.pc = "commit" /\ OnProduct(self)
       /\ product_events' = product_events \cup {self.tx[1]}
       /\ saves' = saves \cup {SaveRecord(self, "product_events", TRUE)}
       /\ Become(p, [self EXCEPT !.tx = <<>>, !.pc = "project"])
       /\ UNCHANGED <<now, running, notifierVars, domainVars, cart_events, cart_read_model,
                      product_read_model, started>>

ProductStore_commit(p) ==
    LET self == procs[p]
    IN /\ self.pc = "commit" /\ OnProduct(self)
       /\ product_events' = product_events \cup {self.tx[i] : i \in DOMAIN self.tx}
       /\ saves' = saves \cup {SaveRecord(self, "product_events", TRUE)}
       /\ Become(p, [self EXCEPT !.tx = <<>>, !.pc = "project"])
       /\ UNCHANGED <<now, running, notifierVars, domainVars, cart_events, cart_read_model,
                      product_read_model, started>>

\* _update_cart_read_model / _update_read_model of the cart use cases
Cart_update_read_model(p) ==
    LET self == procs[p]
    IN /\ self.pc = "project" /\ ~OnProduct(self) /\ self.uc # "CreateCart"
       /\ cart_read_model' = Cart_update_projection(cart_read_model, self.aggregate)
       /\ Become(p, Succeeded(self))
       /\ UNCHANGED <<now, running, notifierVars, domainVars, cart_events, product_events,
                      product_read_model, saves, started>>

\* _update_read_model of the product use cases
Product_update_read_model(p) ==
    LET self == procs[p]
        read == Product_after_read(self.aggregate, now, Eid(self))
    IN /\ self.pc = "project" /\ OnProduct(self)
       /\ product_read_model' =
             Product_update_projection(product_read_model, self.aggregate,
                                       now, Eid(self))
       /\ Become(p, Succeeded([self EXCEPT !.aggregate = read]))
       /\ UNCHANGED <<now, running, notifierVars, domainVars, cart_events, product_events,
                      cart_read_model, saves, started>>

\* a step that reads datetime.utcnow(): the commands of the aggregates and
\* the reserved_stock property read by the product projection
ReadsClock(self) ==
    \/ self.pc = "load"
    \/ self.pc = "get_expired_carts"
    \/ self.pc = "project" /\ OnProduct(self)

\* datetime.utcnow() moves on. Time passing commutes with every step that
\* does not read the clock, so it is taken just before one that does.
Tick ==
    /\ now < MaxTicks * TickMinutes
    /\ \E p \in Procs : ReadsClock(procs[p])
    /\ now' = now + TickMinutes
    /\ UNCHANGED <<domainVars, systemVars>>

Next ==
    \/ Tick
    \/ \E p \in Procs :
        \/ Accept(p)
        \/ Integrated_get_product(p)
        \/ ReserveStock_load(p)
        \/ ReleaseReservation_load(p)
        \/ AddItemToCart_load(p)
        \/ CartStore_check_version(p)
        \/ ProductStore_check_version(p)
        \/ CartStore_insert(p)
        \/ ProductStore_insert(p)
        \/ CartStore_commit(p)
        \/ ProductStore_commit(p)
        \/ Cart_update_read_model(p)
        \/ Product_update_read_model(p)

Spec == Init /\ [][Next]_vars

----------------------------------------------------------------------------
(* SpecProduct: the product use cases and the restock endpoint, called      *)
(* concurrently for one product by several carts.                          *)
(*   ReserveStockUseCase, ReleaseReservationUseCase,                        *)
(*   CheckoutReservationUseCase     application/product/reserve_stock.py   *)
(*   increase_stock                 products_service.py                    *)

\* CheckoutReservationUseCase._execute_once up to its first await inside
\* save_events
CheckoutReservation_load(p) ==
    LET self == procs[p]
        loaded == Product_load_aggregate(product_events, ProductIdOf(self), now)
        called == ProductAggregate_checkout_reservation(
                      loaded.agg, self.req.cart_id, self.req.order_id, now,
                      Eid(self))
        here == [self EXCEPT !.at = now, !.found = loaded.found,
                             !.loaded_version = loaded.agg.version]
    IN /\ self.pc = "load" /\ self.uc = "CheckoutReservation"
       /\ IF ~loaded.found
          THEN Become(p, RaisedValueError(here, "ValueError: Product not found"))
          ELSE IF Raised(called)
          THEN Become(p, RaisedValueError([here EXCEPT !.aggregate = called.agg],
                                          called.raised))
          ELSE Become(p, CallSave(here, called.agg))
       /\ UNCHANGED <<now, running, notifierVars, domainVars, cart_events, product_events,
                      cart_read_model, product_read_model, saves, started>>

\* POST /products/{product_id}/restock up to its first await inside save_events
IncreaseStock_load(p) ==
    LET self == procs[p]
        loaded == Product_load_aggregate(product_events, self.req.product_id, now)
        called == ProductAggregate_increase_stock(loaded.agg, self.req.quantity,
                                                  now, Eid(self))
        here == [self EXCEPT !.at = now, !.found = loaded.found,
                             !.loaded_version = loaded.agg.version]
    IN /\ self.pc = "load" /\ self.uc = "IncreaseStock"
       /\ IF ~loaded.found
          THEN Become(p, Done(here, "HTTPException: Product not found"))
          ELSE IF Raised(called)
          THEN Become(p, RaisedValueError([here EXCEPT !.aggregate = called.agg],
                                          called.raised))
          ELSE Become(p, CallSave(here, called.agg))
       /\ UNCHANGED <<now, running, notifierVars, domainVars, cart_events, product_events,
                      cart_read_model, product_read_model, saves, started>>

ProductUseCaseRequest(uc, cart_ids, quantities, order_ids, reasons) ==
    [kind : {"ProductUseCase"}, uc : {uc}, cart_id : cart_ids,
     product_id : {"P001"}, quantity : quantities, order_id : order_ids,
     reason : reasons, offer : {None}]

ProductRequests ==
    ProductUseCaseRequest("ReserveStock", CartIds, Quantities \ {0}, {None}, {None})
    \cup
    ProductUseCaseRequest("ReleaseReservation", CartIds, {0}, {None},
                          {"item_removed"})
    \cup
    ProductUseCaseRequest("CheckoutReservation", CartIds, {0}, {"O-1"}, {None})
    \cup
    [kind : {"Restock"}, uc : {"IncreaseStock"}, cart_id : {None},
     product_id : {"P001"}, quantity : {0, 1}, order_id : {None},
     reason : {None}, offer : {None}]

AcceptProduct(p) == AcceptFrom(p, ProductRequests)

EarlierEid == [n |-> 0, uc |-> "ReserveStock", attempt |-> 0]

\* the sample product after cart c1 has reserved one unit of it
ReservedProduct ==
    ProductAggregate_reserve_stock(SampleProduct, "c1", 1, 0, EarlierEid).agg

RowsFrom(aggregate) ==
    {EventRow(aggregate.uncommitted_events[i]) :
        i \in DOMAIN aggregate.uncommitted_events}

ProductInit ==
    /\ now = 0
    /\ focus = "service"
    /\ cart = CartAggregate("c1")
    /\ product = ProductAggregate("P001", 0)
    /\ last = [flip |-> FALSE, cmd |-> "none", args |-> <<>>, raised |-> None]
    /\ \E initial \in {SampleProduct, ReservedProduct} :
          /\ product_events = RowsFrom(initial)
          /\ product_read_model =
                Product_update_projection(
                    Product_create_projection(<<>>, "P001", SampleProduct.name,
                                              SampleProduct.price, "",
                                              SampleProduct.total_stock),
                    initial, 0, EarlierEid)
    /\ cart_events = RowsFrom(SampleCart)
    /\ cart_read_model =
            Cart_create_projection(<<>>, "c1", SampleCart.user_id,
                                   SampleCart.created_at)
    /\ procs = [p \in Procs |-> Idle]
    /\ saves = {}
    /\ started = 0
    /\ running = FALSE
    /\ NotifierOff

ProductNext ==
    \/ Tick
    \/ \E p \in Procs :
        \/ AcceptProduct(p)
        \/ ReserveStock_load(p)
        \/ ReleaseReservation_load(p)
        \/ CheckoutReservation_load(p)
        \/ IncreaseStock_load(p)
        \/ ProductStore_check_version(p)
        \/ ProductStore_insert(p)
        \/ ProductStore_commit(p)
        \/ Product_update_read_model(p)

SpecProduct == ProductInit /\ [][ProductNext]_vars

----------------------------------------------------------------------------
(* SpecRetry: a retrying use case against a writer that keeps committing.  *)
(* ReserveStock and ReleaseReservation of one cart run against the restock *)
(* endpoint; the clock stands still, no reservation runs out.              *)

RetryRequests ==
    ProductUseCaseRequest("ReserveStock", {"c1"}, {1}, {None}, {None})
    \cup
    ProductUseCaseRequest("ReleaseReservation", {"c1"}, {0}, {None},
                          {"item_removed"})
    \cup
    [kind : {"Restock"}, uc : {"IncreaseStock"}, cart_id : {None},
     product_id : {"P001"}, quantity : {1}, order_id : {None},
     reason : {None}, offer : {None}]

AcceptRetry(p) == AcceptUpTo(p, RetryRequests, MaxRetryRequests)

RetryNext ==
    \E p \in Procs :
        \/ AcceptRetry(p)
        \/ ReserveStock_load(p)
        \/ ReleaseReservation_load(p)
        \/ IncreaseStock_load(p)
        \/ ProductStore_check_version(p)
        \/ ProductStore_insert(p)
        \/ ProductStore_commit(p)
        \/ Product_update_read_model(p)

SpecRetry == ProductInit /\ [][RetryNext]_vars

----------------------------------------------------------------------------
(* SpecReserve, SpecCompensate: the coordinated add-to-cart against a      *)
(* writer that keeps committing, on the product it reserves (SpecReserve)  *)
(* and on the cart it adds to (SpecCompensate).                            *)
(*   AddItemToCartIntegratedUseCase  application/cart/add_item_integrated.py *)

OneOffer == [name |-> "Laptop", price |-> 2]

\* POST /carts/{cart_id}/items of the integrated service
CoordinatedAdd ==
    [kind : {"AddItemIntegrated"}, cart_id : {"c1"}, product_id : {"P001"},
     quantity : {1}, offer : {None}]

Restocks ==
    [kind : {"Restock"}, uc : {"IncreaseStock"}, cart_id : {None},
     product_id : {"P001"}, quantity : {1}, order_id : {None},
     reason : {None}, offer : {None}]

\* ... against POST /products/{product_id}/restock
ReserveRequests == CoordinatedAdd \cup Restocks

AcceptReserve(p) == AcceptUpTo(p, ReserveRequests, MaxRetryRequests)

OpenCart ==
    /\ "c1" \in DOMAIN cart_read_model
    /\ cart_read_model["c1"].status = "PENDING"

\* ... to a cart that takes writes, against POST /carts/{cart_id}/items of
\* the first service, which makes its cart step lose; to a cart that rejects
\* every write, one coordinated add and then restocks, which make its
\* release lose
CompensateRequests ==
    IF OpenCart
    THEN CoordinatedAdd
         \cup
         [kind : {"AddItem"}, cart_id : {"c1"}, product_id : {"P001"},
          quantity : {1}, offer : {OneOffer}]
    ELSE IF started = 0 THEN CoordinatedAdd ELSE Restocks

AcceptCompensate(p) == AcceptUpTo(p, CompensateRequests, MaxRetryRequests)

\* the sample product after cart c2 has reserved all of it
HeldProduct ==
    ProductAggregate_reserve_stock(SampleProduct, "c2", 2, 0, EarlierEid).agg

\* cart c1 after the first service has added the product to it and checked
\* it out (AddItemToCartUseCase, CheckoutCartUseCase)
ClosedCart ==
    CartAggregate_checkout(
        CartAggregate_add_item(SampleCart, "P001", OneOffer.name, OneOffer.price,
                               1, 0, StartupEid).agg,
        "O-0", 0, StartupEid).agg

\* the database holding the streams of one product and of cart c1 (or of
\* no cart) and the projections written after their last events
StoresInit(initial_product, carts) ==
    /\ now = 0
    /\ focus = "service"
    /\ cart = CartAggregate("c1")
    /\ product = ProductAggregate("P001", 0)
    /\ last = [flip |-> FALSE, cmd |-> "none", args |-> <<>>, raised |-> None]
    /\ product_events = RowsFrom(initial_product)
    /\ product_read_model =
            Product_update_projection(
                Product_create_projection(<<>>, "P001", SampleProduct.name,
                                          SampleProduct.price, "",
                                          SampleProduct.total_stock),
                initial_product, 0, EarlierEid)
    /\ cart_events = UNION {RowsFrom(carts[i]) : i \in DOMAIN carts}
    /\ cart_read_model =
            IF carts = <<>> THEN <<>>
            ELSE Cart_update_projection(
                    Cart_create_projection(<<>>, "c1", SampleCart.user_id,
                                           SampleCart.created_at),
                    carts[1])
    /\ procs = [p \in Procs |-> Idle]
    /\ saves = {}
    /\ started = 0
    /\ running = FALSE
    /\ NotifierOff

ReserveInit ==
    \E initial \in {SampleProduct, HeldProduct} : StoresInit(initial, <<SampleCart>>)

CompensateInit ==
    \E carts \in {<<SampleCart>>, <<ClosedCart>>, <<>>} :
        StoresInit(SampleProduct, carts)

ReserveNext ==
    \E p \in Procs :
        \/ AcceptReserve(p)
        \/ Integrated_get_product(p)
        \/ ReserveStock_load(p)
        \/ ReleaseReservation_load(p)
        \/ AddItemToCart_load(p)
        \/ IncreaseStock_load(p)
        \/ CartStore_check_version(p)
        \/ ProductStore_check_version(p)
        \/ CartStore_insert(p)
        \/ ProductStore_insert(p)
        \/ CartStore_commit(p)
        \/ ProductStore_commit(p)
        \/ Cart_update_read_model(p)
        \/ Product_update_read_model(p)

CompensateNext ==
    \E p \in Procs :
        \/ AcceptCompensate(p)
        \/ Integrated_get_product(p)
        \/ ReserveStock_load(p)
        \/ ReleaseReservation_load(p)
        \/ AddItemToCart_load(p)
        \/ IncreaseStock_load(p)
        \/ CartStore_check_version(p)
        \/ ProductStore_check_version(p)
        \/ CartStore_insert(p)
        \/ ProductStore_insert(p)
        \/ CartStore_commit(p)
        \/ ProductStore_commit(p)
        \/ Cart_update_read_model(p)
        \/ Product_update_read_model(p)

SpecReserve == ReserveInit /\ [][ReserveNext]_vars

SpecCompensate == CompensateInit /\ [][CompensateNext]_vars

----------------------------------------------------------------------------
(* SpecCreateCart: carts are created, concurrently and under ids that are  *)
(* taken, while items are added to them.                                   *)
(*   CreateCartUseCase               application/cart/create_cart.py       *)

\* variant: the cart is created without looking for an existing one
CreateCart_execute_NoExistenceCheck(self, loaded, t) ==
    LET created == CartAggregate_create(CartAggregate(self.req.cart_id),
                                        self.req.user_id, t, Eid(self))
    IN [CallSave(self, created.agg) EXCEPT !.expected_version = 0]

\* execute up to its first await inside save_events
CreateCart_execute(self, loaded, t) ==
    IF loaded.found
    THEN RaisedValueError(self, "ValueError: Cart already exists")
    ELSE LET created == CartAggregate_create(CartAggregate(self.req.cart_id),
                                             self.req.user_id, t, Eid(self))
         IN [CallSave(self, created.agg) EXCEPT !.expected_version = 0]

CreateCart_load(p) ==
    LET self == procs[p]
        loaded == Cart_load_aggregate(cart_events, self.req.cart_id)
        here == [self EXCEPT !.at = now, !.found = loaded.found,
                             !.loaded_version = loaded.agg.version]
    IN /\ self.pc = "load" /\ self.uc = "CreateCart"
       /\ Become(p, CreateCart_execute(here, loaded, now))
       /\ UNCHANGED <<now, running, notifierVars, domainVars, cart_events, product_events,
                      cart_read_model, product_read_model, saves, started>>

\* execute: read_model_repo.create_projection
CreateCart_create_projection(p) ==
    LET self == procs[p]
    IN /\ self.pc = "project" /\ self.uc = "CreateCart"
       /\ cart_read_model' =
             Cart_create_projection(cart_read_model, self.req.cart_id,
                                    self.req.user_id, self.aggregate.created_at)
       /\ Become(p, Succeeded(self))
       /\ UNCHANGED <<now, running, notifierVars, domainVars, cart_events, product_events,
                      product_read_model, saves, started>>

\* CreateCart(cart_id, user_id) for an id that is taken and for one that is
\* free, and the add of the first service to the cart that is being created
CreateCartRequests ==
    [kind : {"CreateCart"}, cart_id : CartIds, user_id : {"user_123"},
     product_id : {None}, quantity : {0}, offer : {None}]
    \cup
    [kind : {"AddItem"}, cart_id : {"c2"}, product_id : {"P001"},
     quantity : {1}, offer : {OneOffer}]

AcceptCreateCart(p) == AcceptUpTo(p, CreateCartRequests, MaxRetryRequests)

CreateCartNext ==
    \/ Tick
    \/ \E p \in Procs :
        \/ AcceptCreateCart(p)
        \/ CreateCart_load(p)
        \/ AddItemToCart_load(p)
        \/ CartStore_check_version(p)
        \/ CartStore_insert(p)
        \/ CartStore_commit(p)
        \/ CreateCart_create_projection(p)
        \/ Cart_update_read_model(p)

SpecCreateCart == Init /\ [][CreateCartNext]_vars

----------------------------------------------------------------------------
(* SpecCheckout: the coordinated checkout of a cart that coordinated adds  *)
(* have filled, while the clock runs and another cart reserves.            *)
(*   CheckoutCartIntegratedUseCase   application/cart/checkout_integrated.py *)

\* [(item.product_id, item.quantity) for item in aggregate.items.values()]
Cart_products_to_checkout(aggregate) ==
    [i \in DOMAIN aggregate.items |->
        <<aggregate.items[i][2].product_id, aggregate.items[i][2].quantity>>]

\* _execute_once up to its first await inside save_events
CheckoutCart_load(p) ==
    LET self == procs[p]
        loaded == Cart_load_aggregate(cart_events, self.req.cart_id)
        called == CartAggregate_checkout(loaded.agg, self.req.order_id, now,
                                         Eid(self))
        here == [self EXCEPT !.at = now, !.found = loaded.found,
                             !.loaded_version = loaded.agg.version]
        listed == [here EXCEPT
                     !.products_to_checkout = Cart_products_to_checkout(loaded.agg)]
    IN /\ self.pc = "load" /\ self.uc = "CheckoutCart"
       /\ IF ~loaded.found
          THEN Become(p, RaisedValueError(here, "ValueError: Cart not found"))
          ELSE IF Raised(called)
          THEN Become(p, RaisedValueError([listed EXCEPT !.aggregate = called.agg],
                                          called.raised))
          ELSE Become(p, CallSave(listed, called.agg))
       /\ UNCHANGED <<now, running, notifierVars, domainVars, cart_events, product_events,
                      cart_read_model, product_read_model, saves, started>>

\* the second product of the catalogue
OtherProduct ==
    ProductAggregate_create(ProductAggregate("P002", 0), "Keyboard", 1, 2, "",
                            0, StartupEid).agg

Catalogue == [product_id \in ProductIds |->
                IF product_id = "P001" THEN SampleProduct ELSE OtherProduct]

\* what one coordinated add that meets no failure leaves in the aggregates:
\* reserve_stock on the product, then add_item on the cart
CoordinatedAddTo(state, product_id, quantity) ==
    LET reserved == ProductAggregate_reserve_stock(
                        state.products[product_id], state.cart.cart_id, quantity,
                        0, [n |-> 0, uc |-> "ReserveStock", attempt |-> 0]).agg
        added == CartAggregate_add_item(
                        state.cart, product_id, reserved.name, reserved.price,
                        quantity, 0,
                        [n |-> 0, uc |-> "AddItemToCart", attempt |-> 0]).agg
    IN [cart |-> added,
        products |-> [state.products EXCEPT ![product_id] = reserved]]

RECURSIVE AfterAdds(_)
AfterAdds(adds) ==
    IF adds = <<>>
    THEN [cart |-> SampleCart, products |-> Catalogue]
    ELSE CoordinatedAddTo(AfterAdds(SubSeq(adds, 1, Len(adds) - 1)),
                          adds[Len(adds)][1], adds[Len(adds)][2])

\* the adds that have filled cart c1: two products, and one product twice
AddHistories ==
    { << <<"P001", 1>>, <<"P002", 1>> >>,
      << <<"P001", 1>>, <<"P001", 1>> >> }

\* the rows of the product projection after the last write to each product
ProductProjections(products) ==
    LET created(rm, product_id) ==
            Product_create_projection(rm, product_id, products[product_id].name,
                                      products[product_id].price, "",
                                      Catalogue[product_id].total_stock)
        both == created(created(<<>>, "P001"), "P002")
    IN Product_update_projection(
            Product_update_projection(both, products["P001"], 0, EarlierEid),
            products["P002"], 0, EarlierEid)

CheckoutInit ==
    /\ now = 0
    /\ focus = "service"
    /\ cart = CartAggregate("c1")
    /\ product = ProductAggregate("P001", 0)
    /\ last = [flip |-> FALSE, cmd |-> "none", args |-> <<>>, raised |-> None]
    /\ \E adds \in AddHistories :
          LET state == AfterAdds(adds)
          IN /\ product_events = UNION {RowsFrom(state.products[product_id]) :
                                            product_id \in ProductIds}
             /\ product_read_model = ProductProjections(state.products)
             /\ cart_events = RowsFrom(state.cart)
             /\ cart_read_model =
                    Cart_update_projection(
                        Cart_create_projection(<<>>, "c1", SampleCart.user_id,
                                               SampleCart.created_at),
                        state.cart)
    /\ procs = [p \in Procs |-> Idle]
    /\ saves = {}
    /\ started = 0
    /\ running = FALSE
    /\ NotifierOff

\* POST /carts/{cart_id}/checkout, and ReserveStock of another cart, which
\* stores the release of the reservations that have run out
CheckoutRequests ==
    [kind : {"CheckoutIntegrated"}, cart_id : {"c1"}, order_id : {"O-1"},
     product_id : {None}, quantity : {0}, offer : {None}]
    \cup
    ProductUseCaseRequest("ReserveStock", {"c2"}, {1}, {None}, {None})

AcceptCheckout(p) == AcceptFrom(p, CheckoutRequests)

CheckoutNext ==
    \/ Tick
    \/ \E p \in Procs :
        \/ AcceptCheckout(p)
        \/ CheckoutCart_load(p)
        \/ ReserveStock_load(p)
        \/ CheckoutReservation_load(p)
        \/ CartStore_check_version(p)
        \/ ProductStore_check_version(p)
        \/ CartStore_insert(p)
        \/ ProductStore_insert(p)
        \/ CartStore_commit(p)
        \/ ProductStore_commit(p)
        \/ Cart_update_read_model(p)
        \/ Product_update_read_model(p)

SpecCheckout == CheckoutInit /\ [][CheckoutNext]_vars

----------------------------------------------------------------------------
(* SpecRemove: the coordinated remove                                      *)
(*   RemoveItemFromCartIntegratedUseCase                                   *)
(*       application/cart/remove_item_integrated.py                        *)
(* Cart c1 holds its items; the product P002 is in the catalogue or not:   *)
(* AddItemToCartUseCase puts in a cart whatever product id it is given.    *)

\* variant: the product is not looked up in the cart before the command
RemoveItemFromCart_execute_NoPresenceCheck(self, loaded, t) ==
    LET called == CartAggregate_remove_item_NoPresenceCheck(
                      loaded.agg, self.req.product_id, t, Eid(self))
    IN IF ~loaded.found
       THEN RaisedValueError(self, "ValueError: Cart not found")
       ELSE IF Raised(called)
       THEN RaisedValueError([self EXCEPT !.aggregate = called.agg], called.raised)
       ELSE CallSave(self, called.agg)

\* _execute_once from the load to the call of save_events
RemoveItemFromCart_execute(self, loaded, t) ==
    LET called == CartAggregate_remove_item(loaded.agg, self.req.product_id, t,
                                            Eid(self))
    IN IF ~loaded.found
       THEN RaisedValueError(self, "ValueError: Cart not found")
       ELSE IF self.req.product_id \notin DictKeys(loaded.agg.items)
       THEN RaisedValueError([self EXCEPT !.aggregate = loaded.agg],
                             "ValueError: Product not found in cart")
       ELSE IF Raised(called)
       THEN RaisedValueError([self EXCEPT !.aggregate = called.agg], called.raised)
       ELSE CallSave(self, called.agg)

RemoveItemFromCart_load(p) ==
    LET self == procs[p]
        loaded == Cart_load_aggregate(cart_events, self.req.cart_id)
        here == [self EXCEPT !.at = now, !.found = loaded.found,
                             !.loaded_version = loaded.agg.version]
    IN /\ self.pc = "load" /\ self.uc = "RemoveItemFromCart"
       /\ Become(p, RemoveItemFromCart_execute(here, loaded, now))
       /\ UNCHANGED <<now, running, notifierVars, domainVars, cart_events, product_events,
                      cart_read_model, product_read_model, saves, started>>

\* the products that have an event stream
Stocked == {ProductIds, {"P001"}}

RemoveInit ==
    /\ now = 0
    /\ focus = "service"
    /\ cart = CartAggregate("c1")
    /\ product = ProductAggregate("P001", 0)
    /\ last = [flip |-> FALSE, cmd |-> "none", args |-> <<>>, raised |-> None]
    /\ \E adds \in AddHistories, stocked \in Stocked :
          LET state == AfterAdds(adds)
              rows == ProductProjections(state.products)
          IN /\ product_events = UNION {RowsFrom(state.products[product_id]) :
                                            product_id \in stocked}
             /\ product_read_model = [product_id \in stocked |-> rows[product_id]]
             /\ cart_events = RowsFrom(state.cart)
             /\ cart_read_model =
                    Cart_update_projection(
                        Cart_create_projection(<<>>, "c1", SampleCart.user_id,
                                               SampleCart.created_at),
                        state.cart)
    /\ procs = [p \in Procs |-> Idle]
    /\ saves = {}
    /\ started = 0
    /\ running = FALSE
    /\ NotifierOff

\* DELETE /carts/{cart_id}/items/{product_id}, and ReserveStock of another cart
RemoveRequests ==
    [kind : {"RemoveIntegrated"}, cart_id : {"c1"}, order_id : {None},
     product_id : ProductIds, quantity : {0}, offer : {None}]
    \cup
    ProductUseCaseRequest("ReserveStock", {"c2"}, {1}, {None}, {None})

AcceptRemove(p) == AcceptFrom(p, RemoveRequests)

RemoveNext ==
    \/ Tick
    \/ \E p \in Procs :
        \/ AcceptRemove(p)
        \/ RemoveItemFromCart_load(p)
        \/ ReserveStock_load(p)
        \/ ReleaseReservation_load(p)
        \/ CartStore_check_version(p)
        \/ ProductStore_check_version(p)
        \/ CartStore_insert(p)
        \/ ProductStore_insert(p)
        \/ CartStore_commit(p)
        \/ ProductStore_commit(p)
        \/ Cart_update_read_model(p)
        \/ Product_update_read_model(p)

SpecRemove == RemoveInit /\ [][RemoveNext]_vars

----------------------------------------------------------------------------
(* SpecExpire: the expiry of carts                                         *)
(*   ExpireCartUseCase, CartExpirationBackgroundTask                       *)
(*       application/cart/expiration_task.py                               *)
(* The scheduler's task runs one tick at a time; ExpireCart is also called *)
(* by itself. Cart c1 holds its items, cart c2 is absent, open or closed.  *)

timeout_minutes == 15

\* SELECT cart_id ... WHERE status = 'PENDING' AND last_activity < cutoff
get_expired_carts(rm, minutes, t) ==
    {cart_id \in DOMAIN rm :
        /\ rm[cart_id].status = "PENDING"
        /\ rm[cart_id].last_activity < t - minutes}

\* the orders in which a query without ORDER BY may return its rows
Orders(rows) ==
    {order \in [1 .. Cardinality(rows) -> rows] :
        \A row \in rows : \E i \in DOMAIN order : order[i] = row}

Cart_products_to_release(aggregate) ==
    [i \in DOMAIN aggregate.items |->
        <<aggregate.items[i][2].product_id, aggregate.items[i][2].quantity>>]

\* variant: the status of the cart is not looked at
ExpireCart_execute_NoStatusCheck(self, loaded, t) ==
    LET called == CartAggregate_expire_NoStatusCheck(loaded.agg, self.req.reason,
                                                     t, Eid(self))
        listed == [self EXCEPT
                     !.products_to_release = Cart_products_to_release(loaded.agg)]
    IN IF ~loaded.found
       THEN ExpireReturned(self)
       ELSE CallSave(listed, called.agg)

\* ExpireCartUseCase.execute from the load to the call of save_events
ExpireCart_execute(self, loaded, t) ==
    LET called == CartAggregate_expire(loaded.agg, self.req.reason, t, Eid(self))
        listed == [self EXCEPT
                     !.products_to_release = Cart_products_to_release(loaded.agg)]
    IN IF ~loaded.found
       THEN ExpireReturned(self)
       ELSE IF loaded.agg.status # "PENDING"
       THEN ExpireReturned([self EXCEPT !.aggregate = loaded.agg])
       ELSE IF Raised(called)
       THEN ExpireRaised([listed EXCEPT !.aggregate = called.agg], called.raised)
       ELSE CallSave(listed, called.agg)

ExpireCart_load(p) ==
    LET self == procs[p]
        loaded == Cart_load_aggregate(cart_events, self.req.cart_id)
        here == [self EXCEPT !.at = now, !.found = loaded.found,
                             !.loaded_version = loaded.agg.version]
    IN /\ self.pc = "load" /\ self.uc = "ExpireCart"
       /\ Become(p, ExpireCart_execute(here, loaded, now))
       /\ UNCHANGED <<now, running, notifierVars, domainVars, cart_events, product_events,
                      cart_read_model, product_read_model, saves, started>>

\* the task of the scheduler is inside _check_and_expire_carts
InTick(self) ==
    self.pc \notin {"idle", "done"} /\ self.req.kind = "ExpirationTick"

\* start(): a second call changes nothing
Scheduler_start ==
    /\ ~running
    /\ running' = TRUE
    /\ UNCHANGED <<now, notifierVars, domainVars, cart_events, product_events, cart_read_model,
                   product_read_model, procs, saves, started>>

TickRequest ==
    [kind |-> "ExpirationTick", cart_id |-> None, order_id |-> None,
     product_id |-> None, quantity |-> 0, offer |-> None,
     reason |-> "15_minute_timeout"]

\* _run: while self._running, one call of _check_and_expire_carts, up to
\* its first await
Scheduler_run_UpTo(p, limit) ==
    /\ running
    /\ \A q \in Procs : ~InTick(procs[q])
    /\ AcceptUpTo(p, {TickRequest}, limit)

Scheduler_run(p) == Scheduler_run_UpTo(p, MaxRequests)

\* _check_and_expire_carts: the rows get_expired_carts returns, and the
\* first turn of the loop over them
Tick_get_expired_carts(p) ==
    LET self == procs[p]
        rows == get_expired_carts(cart_read_model, timeout_minutes, now)
    IN /\ self.pc = "get_expired_carts"
       /\ \E order \in Orders(rows) :
             Become(p, NextCart([self EXCEPT !.at = now, !.listed = order,
                                             !.expired_cart_ids = order]))
       /\ UNCHANGED <<now, running, notifierVars, domainVars, cart_events, product_events,
                      cart_read_model, product_read_model, saves, started>>

\* a cart created by CreateCartUseCase
NewCart(cart_id) ==
    CartAggregate_create(CartAggregate(cart_id), "user_123", 0, StartupEid).agg

\* cart c2 after POST /carts/{cart_id}/items of the first service has put
\* the second product in it
FilledCart ==
    CartAggregate_add_item(NewCart("c2"), "P002", OtherProduct.name,
                           OtherProduct.price, 1, 0, StartupEid).agg

\* cart c2: absent, open, checked out, expired
OtherCarts ==
    {<<>>,
     <<FilledCart>>,
     <<CartAggregate_checkout(FilledCart, "O-0", 0, StartupEid).agg>>,
     <<CartAggregate_expire(FilledCart, "15_minute_timeout", 0, StartupEid).agg>>}

\* the projection rows of the carts, each written after the cart's last event
CartProjections(carts) ==
    LET written(rm, aggregate) ==
            Cart_update_projection(
                Cart_create_projection(rm, aggregate.cart_id, aggregate.user_id,
                                       aggregate.created_at),
                aggregate)
    IN IF Len(carts) = 1
       THEN written(<<>>, carts[1])
       ELSE written(written(<<>>, carts[1]), carts[2])

\* the products of the catalogue that have an event stream
ExpireStocked == {ProductIds, {"P002"}}

\* the database at minute t, every event in it of minute 0
ExpireStores(t, scheduler_started) ==
    /\ now = t
    /\ focus = "service"
    /\ cart = CartAggregate("c1")
    /\ product = ProductAggregate("P001", 0)
    /\ last = [flip |-> FALSE, cmd |-> "none", args |-> <<>>, raised |-> None]
    /\ \E adds \in AddHistories, stocked \in ExpireStocked, others \in OtherCarts :
          LET state == AfterAdds(adds)
              rows == ProductProjections(state.products)
              carts == <<state.cart>> \o others
          IN /\ product_events = UNION {RowsFrom(state.products[product_id]) :
                                            product_id \in stocked}
             /\ product_read_model = [product_id \in stocked |-> rows[product_id]]
             /\ cart_events = UNION {RowsFrom(carts[i]) : i \in DOMAIN carts}
             /\ cart_read_model = CartProjections(carts)
    /\ procs = [p \in Procs |-> Idle]
    /\ saves = {}
    /\ started = 0
    /\ running = scheduler_started
    /\ NotifierOff

ExpireInit == ExpireStores(0, FALSE)

\* ExpireCartUseCase called by itself
ExpireRequests ==
    [kind : {"ExpireCart"}, cart_id : CartIds, order_id : {None},
     product_id : {None}, quantity : {0}, offer : {None},
     reason : {"15_minute_timeout"}]

AcceptExpire(p) == AcceptFrom(p, ExpireRequests)

ExpireNext ==
    \/ Tick
    \/ Scheduler_start
    \/ \E p \in Procs :
        \/ AcceptExpire(p)
        \/ Scheduler_run(p)
        \/ Tick_get_expired_carts(p)
        \/ ExpireCart_load(p)
        \/ ReleaseReservation_load(p)
        \/ CartStore_check_version(p)
        \/ ProductStore_check_version(p)
        \/ CartStore_insert(p)
        \/ ProductStore_insert(p)
        \/ CartStore_commit(p)
        \/ ProductStore_commit(p)
        \/ Cart_update_read_model(p)
        \/ Product_update_read_model(p)

SpecExpire == ExpireInit /\ [][ExpireNext]_vars

----------------------------------------------------------------------------
(* SpecScheduler: SpecExpire with the scheduler's stop()                   *)

\* asyncio.CancelledError is raised at the await the task is suspended at;
\* it is a BaseException, so no except Exception of the tick catches it:
\* the session is closed with what it has not committed and the task ends
Cancelled(self) == Done(self, "CancelledError")

\* stop(): _running = False, self._task.cancel(), await self._task
Scheduler_stop ==
    /\ running
    /\ running' = FALSE
    /\ procs' = [q \in Procs |->
                    IF InTick(procs[q]) THEN Cancelled(procs[q]) ELSE procs[q]]
    /\ UNCHANGED <<now, notifierVars, domainVars, cart_events, product_events, cart_read_model,
                   product_read_model, saves, started>>

SchedulerNext ==
    \/ ExpireNext
    \/ Scheduler_stop

SpecScheduler == ExpireInit /\ [][SchedulerNext]_vars

----------------------------------------------------------------------------
(* SpecExpireLive: the running scheduler at a time when the carts of the   *)
(* database have had no activity for longer than the timeout, against      *)
(* POST /products/{product_id}/restock. The event loop runs every          *)
(* coroutine that is ready and the sleep of _run ends, so each handler and *)
(* the scheduler's task take the steps they can take; requests arrive or   *)
(* not.                                                                    *)

ExpireLiveInit == ExpireStores(MaxTicks * TickMinutes, TRUE)

\* a restock arrives once the scheduler's task has begun a tick
AcceptRestock(p) ==
    /\ \E q \in Procs : procs[q].pc # "idle" /\ procs[q].req.kind = "ExpirationTick"
    /\ AcceptUpTo(p, Restocks, MaxRetryRequests)

\* the step of the coroutine p that loads an aggregate and calls its command
LoadStep(p) ==
    \/ ExpireCart_load(p)
    \/ ReleaseReservation_load(p)
    \/ IncreaseStock_load(p)

\* LoadStep(p) can be taken exactly when p is at its load, and it changes p
AtLoad(p) == procs[p].pc = "load"

\* the other steps of the coroutine p, a request handler or the scheduler's
\* task; the scheduler goes on with a new tick after the restocks
Step(p) ==
    \/ Scheduler_run_UpTo(p, MaxRetryRequests + 1)
    \/ Tick_get_expired_carts(p)
    \/ CartStore_check_version(p)
    \/ ProductStore_check_version(p)
    \/ CartStore_insert(p)
    \/ ProductStore_insert(p)
    \/ CartStore_commit(p)
    \/ ProductStore_commit(p)
    \/ Cart_update_read_model(p)
    \/ Product_update_read_model(p)

ExpireLiveNext ==
    \E p \in Procs :
        \/ AcceptRestock(p)
        \/ LoadStep(p)
        \/ Step(p)

\* weak fairness of every step of every coroutine; for LoadStep(p) it is
\* written with AtLoad(p), the states in which the step can be taken
SpecExpireLive ==
    /\ ExpireLiveInit
    /\ [][ExpireLiveNext]_vars
    /\ \A p \in Procs :
          /\ WF_vars(Step(p))
          /\ <>[]AtLoad(p) => []<><<LoadStep(p)>>_vars

----------------------------------------------------------------------------
(* SpecSequential: coordinated adds called one after the other, each when   *)
(* the one before has returned, with no time passing.  Cart c1 exists and   *)
(* cart c2 does not.                                                        *)

SequentialRequests ==
    [kind : {"AddItemIntegrated"}, cart_id : CartIds, product_id : {"P001"},
     quantity : Quantities \ {0}, offer : {None}]

\* the caller awaits each call before it makes the next
AcceptSequential(p) ==
    /\ \A q \in Procs : procs[q].pc \in {"idle", "done"}
    /\ AcceptUpTo(p, SequentialRequests, MaxRetryRequests)

SequentialNext ==
    \E p \in Procs :
        \/ AcceptSequential(p)
        \/ Integrated_get_product(p)
        \/ ReserveStock_load(p)
        \/ ReleaseReservation_load(p)
        \/ AddItemToCart_load(p)
        \/ CartStore_check_version(p)
        \/ ProductStore_check_version(p)
        \/ CartStore_insert(p)
        \/ ProductStore_insert(p)
        \/ CartStore_commit(p)
        \/ ProductStore_commit(p)
        \/ Cart_update_read_model(p)
        \/ Product_update_read_model(p)

SpecSequential == Init /\ [][SequentialNext]_vars

----------------------------------------------------------------------------
(* SpecLifecycle: the four operations that write to a cart, called          *)
(* concurrently for cart c1 after coordinated adds have filled it.          *)
(*   AddItemToCartIntegratedUseCase       cart/add_item_integrated.py       *)
(*   RemoveItemFromCartIntegratedUseCase  cart/remove_item_integrated.py    *)
(*   CheckoutCartIntegratedUseCase        cart/checkout_integrated.py       *)
(*   ExpireCartUseCase                    cart/expiration_task.py           *)

LifecycleRequests ==
    [kind : {"AddItemIntegrated"}, cart_id : {"c1"}, product_id : {"P001"},
     quantity : {1}, offer : {None}]
    \cup
    [kind : {"RemoveIntegrated"}, cart_id : {"c1"}, order_id : {None},
     product_id : {"P001"}, quantity : {0}, offer : {None}]
    \cup
    [kind : {"CheckoutIntegrated"}, cart_id : {"c1"}, order_id : OrderIds,
     product_id : {None}, quantity : {0}, offer : {None}]
    \cup
    [kind : {"ExpireCart"}, cart_id : {"c1"}, order_id : {None},
     product_id : {None}, quantity : {0}, offer : {None},
     reason : {"15_minute_timeout"}]

AcceptLifecycle(p) == AcceptFrom(p, LifecycleRequests)

LifecycleNext ==
    \/ Tick
    \/ \E p \in Procs :
        \/ AcceptLifecycle(p)
        \/ Integrated_get_product(p)
        \/ ReserveStock_load(p)
        \/ AddItemToCart_load(p)
        \/ RemoveItemFromCart_load(p)
        \/ CheckoutCart_load(p)
        \/ CheckoutReservation_load(p)
        \/ ExpireCart_load(p)
        \/ ReleaseReservation_load(p)
        \/ CartStore_check_version(p)
        \/ ProductStore_check_version(p)
        \/ CartStore_insert(p)
        \/ ProductStore_insert(p)
        \/ CartStore_commit(p)
        \/ ProductStore_commit(p)
        \/ Cart_update_read_model(p)
        \/ Product_update_read_model(p)

SpecLifecycle == CheckoutInit /\ [][LifecycleNext]_vars

----------------------------------------------------------------------------
(* SpecActive: the scheduler at work while the carts it finds stale are     *)
(* used again: coordinated adds arrive for cart c1 during a tick.           *)

ActiveRequests ==
    [kind : {"AddItemIntegrated"}, cart_id : {"c1"}, product_id : ProductIds,
     quantity : {1}, offer : {None}]

AcceptActive(p) == AcceptFrom(p, ActiveRequests)

ActiveNext ==
    \E p \in Procs :
        \/ Scheduler_run(p)
        \/ Tick_get_expired_carts(p)
        \/ AcceptActive(p)
        \/ Integrated_get_product(p)
        \/ ReserveStock_load(p)
        \/ AddItemToCart_load(p)
        \/ ExpireCart_load(p)
        \/ ReleaseReservation_load(p)
        \/ CartStore_check_version(p)
        \/ ProductStore_check_version(p)
        \/ CartStore_insert(p)
        \/ ProductStore_insert(p)
        \/ CartStore_commit(p)
        \/ ProductStore_commit(p)
        \/ Cart_update_read_model(p)
        \/ Product_update_read_model(p)

SpecActive == ExpireLiveInit /\ [][ActiveNext]_vars

----------------------------------------------------------------------------
(* SpecNotifier: the notification service of lab_2.  The API handlers of   *)
(* NotificationService and the beat task run one transaction each; a send  *)
(* task runs on a Celery worker and is interleaved with everything else    *)
(* between its statements.  The database locks a row for SELECT ... FOR    *)
(* UPDATE until the transaction ends, and a second locking read of the row *)
(* waits and then sees the committed row.                                  *)

MaxNotifications == 1   \* rows created in a run
MaxQueued == 2          \* messages waiting in the queues at one time
MaxAdvances == 1        \* clock advances in a run of the notifier

celery_max_retries == 3

Workers == {"worker-1", "worker-2"}
Channels == {"email", "push"}
Unlocked == None

NoTask == [name |-> None, notification_id |-> 0, retries |-> 0]
IdleWorker == [pc |-> "idle", task |-> NoTask, last |-> None]

\* lab_3 is not part of this deployment
NotifierInit ==
    /\ now = 0
    /\ focus = None /\ cart = None /\ product = None /\ last = None
    /\ Lab3Off
    /\ notifications = <<>>
    /\ celery_queue = <<>>
    /\ workers = [w \in Workers |-> IdleWorker]
    /\ delivered = <<>>

lab3Vars == <<domainVars, cart_events, product_events, cart_read_model,
              product_read_model, procs, saves, started, running>>

\* the times a caller may ask for: at once, or one clock advance ahead
Schedules == {now, now + TickMinutes}

NotifierTick ==
    /\ now < MaxAdvances * TickMinutes
    /\ now' = now + TickMinutes
    /\ UNCHANGED <<notifierVars, lab3Vars>>

\* _send_to_channel: .delay() of the task of the notification's channel
send_to_channel(queue, id, channel) ==
    CASE channel = "email" ->
            Append(queue, [name |-> "send_email_notification",
                           notification_id |-> id, retries |-> 0])
      [] channel = "push" ->
            Append(queue, [name |-> "send_push_notification",
                           notification_id |-> id, retries |-> 0])
      [] OTHER -> queue

Room(k) == Len(celery_queue) + k <= MaxQueued

\* the row is pending and no transaction holds its lock
LockablePending(id) ==
    /\ id \in DOMAIN notifications
    /\ notifications[id].status = "pending"
    /\ notifications[id].locked_by = Unlocked

create_notification(channel, scheduled_time) ==
    LET id == Len(notifications) + 1
        created == [status |-> "pending", attempts |-> 0, channel |-> channel,
                    scheduled_time |-> scheduled_time,
                    locked_by |-> Unlocked, cancelling |-> FALSE]
    IN /\ id <= MaxNotifications
       /\ notifications' = Append(notifications, created)
       /\ delivered' = Append(delivered, 0)
       /\ IF scheduled_time <= now
            THEN /\ Room(1)
                 /\ celery_queue' = send_to_channel(celery_queue, id, channel)
            ELSE UNCHANGED celery_queue
       /\ UNCHANGED <<now, workers, lab3Vars>>

\* the UPDATE of scheduled_time waits for the row lock
reschedule_notification(id, new_time) ==
    /\ LockablePending(id)
    /\ notifications' = [notifications EXCEPT ![id].scheduled_time = new_time]
    /\ IF new_time <= now
         THEN /\ Room(1)
              /\ celery_queue' =
                    send_to_channel(celery_queue, id, notifications[id].channel)
         ELSE UNCHANGED celery_queue
    /\ UNCHANGED <<now, workers, delivered, lab3Vars>>

force_send_now(id) ==
    /\ LockablePending(id)
    /\ Room(1)
    /\ notifications' = [notifications EXCEPT ![id].scheduled_time = now]
    /\ celery_queue' =
            send_to_channel(celery_queue, id, notifications[id].channel)
    /\ UNCHANGED <<now, workers, delivered, lab3Vars>>

\* repo.cancel reads the row without a lock ...
cancel_notification_read(id) ==
    /\ id \in DOMAIN notifications
    /\ notifications[id].status = "pending"
    /\ ~notifications[id].cancelling
    /\ notifications' = [notifications EXCEPT ![id].cancelling = TRUE]
    /\ UNCHANGED <<now, celery_queue, workers, delivered, lab3Vars>>

\* ... and its UPDATE, which waits for the row lock, writes whatever the
\* row has become since
cancel_notification_write(id) ==
    /\ id \in DOMAIN notifications
    /\ notifications[id].cancelling
    /\ notifications[id].locked_by = Unlocked
    /\ notifications' = [notifications EXCEPT ![id].status = "cancelled",
                                              ![id].cancelling = FALSE]
    /\ UNCHANGED <<now, celery_queue, workers, delivered, lab3Vars>>

\* the beat task: the pending rows that are due and not locked (SKIP
\* LOCKED), each published to the queue of its channel
process_scheduled_notifications ==
    LET ids == [i \in DOMAIN notifications |-> i]
        Due(id) == LockablePending(id) /\ notifications[id].scheduled_time <= now
        pending == SelectSeq(ids, Due)
        Publish[k \in 0..Len(pending)] ==
            IF k = 0 THEN celery_queue
            ELSE send_to_channel(Publish[k - 1], pending[k],
                                 notifications[pending[k]].channel)
    IN /\ pending # <<>>
       /\ Room(Len(pending))
       /\ celery_queue' = Publish[Len(pending)]
       /\ UNCHANGED <<now, notifications, workers, delivered, lab3Vars>>

Without(queue, i) == SubSeq(queue, 1, i - 1) \o SubSeq(queue, i + 1, Len(queue))

\* a worker takes a message; with acks_late it is acknowledged only when the
\* task has run
Worker_receive(w, i) ==
    /\ workers[w].pc = "idle"
    /\ i \in DOMAIN celery_queue
    /\ workers' = [workers EXCEPT ![w].pc = "select", ![w].task = celery_queue[i]]
    /\ celery_queue' = Without(celery_queue, i)
    /\ UNCHANGED <<now, notifications, delivered, lab3Vars>>

Finished(w, outcome) ==
    [workers EXCEPT ![w] = [pc |-> "idle", task |-> NoTask, last |-> outcome]]

\* the same query as a plain SELECT: it does not wait for the row lock
send_notification_select_NoLock(w) ==
    LET id == workers[w].task.notification_id
    IN /\ workers[w].pc = "select"
       /\ IF notifications[id].status = "pending"
            THEN /\ notifications' = [notifications EXCEPT ![id].locked_by = w]
                 /\ workers' = [workers EXCEPT ![w].pc = "mark"]
            ELSE /\ workers' = Finished(w, "already processed")
                 /\ UNCHANGED notifications
       /\ UNCHANGED <<now, celery_queue, delivered, lab3Vars>>

\* filter(id, status == "pending").with_for_update().first(), and the return
\* when there is no such row
send_notification_select(w) ==
    LET id == workers[w].task.notification_id
    IN /\ workers[w].pc = "select"
       /\ IF notifications[id].status = "pending"
            THEN /\ notifications[id].locked_by = Unlocked
                 /\ notifications' = [notifications EXCEPT ![id].locked_by = w]
                 /\ workers' = [workers EXCEPT ![w].pc = "mark"]
            ELSE /\ workers' = Finished(w, "already processed")
                 /\ UNCHANGED notifications
       /\ UNCHANGED <<now, celery_queue, delivered, lab3Vars>>

\* status = "processing", attempts += 1, commit: the lock is released
send_notification_mark(w) ==
    LET id == workers[w].task.notification_id
    IN /\ workers[w].pc = "mark"
       /\ notifications' =
            [notifications EXCEPT ![id].status = "processing",
                                  ![id].attempts = @ + 1,
                                  ![id].locked_by = Unlocked]
       /\ workers' = [workers EXCEPT ![w].pc = "deliver"]
       /\ UNCHANGED <<now, celery_queue, delivered, lab3Vars>>

\* deliver_email / deliver_push returns or raises
send_notification_deliver(w, raises) ==
    LET id == workers[w].task.notification_id
    IN /\ workers[w].pc = "deliver"
       /\ delivered' = [delivered EXCEPT ![id] = @ + 1]
       /\ workers' = [workers EXCEPT
                        ![w].pc = IF raises THEN "failed" ELSE "sent"]
       /\ UNCHANGED <<now, notifications, celery_queue, lab3Vars>>

send_notification_sent(w) ==
    LET id == workers[w].task.notification_id
    IN /\ workers[w].pc = "sent"
       /\ notifications' = [notifications EXCEPT ![id].status = "sent"]
       /\ workers' = Finished(w, "sent")
       /\ UNCHANGED <<now, celery_queue, delivered, lab3Vars>>

\* status = "failed", commit, raise: autoretry_for publishes the task again
\* while it has retries left
send_notification_failed(w) ==
    LET task == workers[w].task
        id == task.notification_id
    IN /\ workers[w].pc = "failed"
       /\ notifications' = [notifications EXCEPT ![id].status = "failed"]
       /\ workers' = Finished(w, "raised")
       /\ IF task.retries < celery_max_retries
            THEN /\ Room(1)
                 /\ celery_queue' =
                        Append(celery_queue, [task EXCEPT !.retries = @ + 1])
            ELSE UNCHANGED celery_queue
       /\ UNCHANGED <<now, delivered, lab3Vars>>

\* the worker process dies: its open transaction is rolled back and the
\* unacknowledged message goes back to the queue
Worker_lost(w) ==
    /\ workers[w].pc # "idle"
    /\ Room(1)
    /\ celery_queue' = Append(celery_queue, workers[w].task)
    /\ workers' = [workers EXCEPT ![w] = [IdleWorker EXCEPT !.last = workers[w].last]]
    /\ notifications' =
            [id \in DOMAIN notifications |->
                IF notifications[id].locked_by = w
                  THEN [notifications[id] EXCEPT !.locked_by = Unlocked]
                  ELSE notifications[id]]
    /\ UNCHANGED <<now, delivered, lab3Vars>>

NotifierNext ==
    \/ NotifierTick
    \/ \E channel \in Channels, scheduled_time \in Schedules :
            create_notification(channel, scheduled_time)
    \/ \E id \in 1..MaxNotifications :
            \/ force_send_now(id)
            \/ \E new_time \in Schedules : reschedule_notification(id, new_time)
            \/ cancel_notification_read(id)
            \/ cancel_notification_write(id)
    \/ process_scheduled_notifications
    \/ \E w \in Workers :
            \/ \E i \in 1..MaxQueued : Worker_receive(w, i)
            \/ send_notification_select(w)
            \/ send_notification_mark(w)
            \/ \E raises \in BOOLEAN : send_notification_deliver(w, raises)
            \/ send_notification_sent(w)
            \/ send_notification_failed(w)
            \/ Worker_lost(w)

SpecNotifier == NotifierInit /\ [][NotifierNext]_vars

\* what a worker process does by itself: it takes a message when it is idle
\* and runs the statements of its task
WorkerStep(w) ==
    \/ \E i \in 1..MaxQueued : Worker_receive(w, i)
    \/ send_notification_select(w)
    \/ send_notification_mark(w)
    \/ \E raises \in BOOLEAN : send_notification_deliver(w, raises)
    \/ send_notification_sent(w)
    \/ send_notification_failed(w)

\* the workers keep running: a worker that can go on does go on
SpecNotifierLive ==
    /\ NotifierInit
    /\ [][NotifierNext]_vars
    /\ \A w \in Workers : WF_vars(WorkerStep(w))

----------------------------------------------------------------------------
(* Properties of the aggregates, checked under SpecDomain *)

\* a call was made in this step (the clock step and stuttering leave last alone)
CartCalled(cmd) == focus = "cart" /\ last'.flip # last.flip /\ last'.cmd = cmd

LastEvent(self) == self.uncommitted_events[Len(self.uncommitted_events)]

RECURSIVE SetSum(_, _)
SetSum(f, S) ==
    IF S = {} THEN 0
    ELSE LET x == CHOOSE y \in S : TRUE IN f[x] + SetSum(f, S \ {x})

\* C3: replay law. Applying the events a live aggregate emitted, in order and
\* with is_new=False, to a fresh aggregate gives the live aggregate's observable
\* state (Cart: status, items, version, total_amount, item_count; Product:
\* total_stock, reservations, version) and an empty uncommitted-events buffer.
C3_ReplayLaw ==
    /\ LET replayed == Cart_replay(CartAggregate(cart.cart_id),
                                   cart.uncommitted_events)
       IN /\ replayed.status = cart.status
          /\ replayed.items = cart.items
          /\ replayed.version = cart.version
          /\ Cart_total_amount(replayed) = Cart_total_amount(cart)
          /\ Cart_item_count(replayed) = Cart_item_count(cart)
          /\ replayed.uncommitted_events = <<>>
    /\ LET replayed == Product_replay(ProductAggregate(product.product_id, now),
                                      product.uncommitted_events)
       IN /\ replayed.total_stock = product.total_stock
          /\ replayed.reservations = product.reservations
          /\ replayed.version = product.version
          /\ replayed.uncommitted_events = <<>>

\* a cart built by create, add, add of the same product, replayed to version 3
C3_Witness ==
    /\ focus = "cart"
    /\ Len(cart.uncommitted_events) = 3
    /\ cart.user_id # None
    /\ LET replayed == Cart_replay(CartAggregate(cart.cart_id),
                                   cart.uncommitted_events)
       IN /\ replayed.version = 3
          /\ "P001" \in DictKeys(replayed.items)
          /\ DictGet(replayed.items, "P001").quantity = 3

\* C4: every mutation called on a CHECKED_OUT or EXPIRED cart raises, emits no
\* event and leaves the aggregate (items, status, version, buffer) as it was.
C4_TerminalCartRejects ==
    [][ (/\ \E cmd \in {"add_item", "remove_item", "change_quantity",
                        "checkout", "expire"} : CartCalled(cmd)
         /\ cart.status \in {"CHECKED_OUT", "EXPIRED"})
        => (last'.raised # None /\ cart' = cart) ]_vars

C4_Witness ==
    /\ focus = "cart"
    /\ cart.status = "EXPIRED"
    /\ DictKeys(cart.items) # {}
    /\ last.cmd = "add_item"
    /\ last.args.quantity > 0 /\ last.args.price >= 0
    /\ last.raised # None

\* C5: on a PENDING cart a command whose precondition fails raises, emits no
\* event and leaves items, status and version unchanged.
C5_PreconditionFails ==
    \/ CartCalled("create") /\ cart.user_id # None
    \/ CartCalled("add_item") /\ (last'.args.quantity <= 0 \/ last'.args.price < 0)
    \/ CartCalled("remove_item") /\ last'.args.product_id \notin DictKeys(cart.items)
    \/ CartCalled("change_quantity")
          /\ (\/ last'.args.product_id \notin DictKeys(cart.items)
              \/ last'.args.new_quantity <= 0)
    \/ CartCalled("checkout") /\ cart.items = EmptyDict

C5_FailedPreconditionRejects ==
    [][ (cart.status = "PENDING" /\ C5_PreconditionFails)
        => (last'.raised # None /\ cart' = cart) ]_vars

C5_Witness ==
    /\ focus = "cart"
    /\ cart.status = "PENDING"
    /\ DictKeys(cart.items) = {"P001"}
    /\ last.cmd = "remove_item"
    /\ last.args.product_id = "P002"
    /\ last.raised # None

\* index of the last ItemRemovedFromCart of the product, 0 when there is none
C6_LastRemoved(events, product_id) ==
    LET removed == {i \in DOMAIN events :
                        /\ events[i].event_type = "ItemRemovedFromCart"
                        /\ events[i].product_id = product_id}
    IN IF removed = {} THEN 0 ELSE CHOOSE i \in removed : \A j \in removed : j <= i

C6_AddedSince(events, product_id) ==
    LET adds == {i \in DOMAIN events :
                        /\ i > C6_LastRemoved(events, product_id)
                        /\ events[i].event_type = "ItemAddedToCart"
                        /\ events[i].product_id = product_id}
    IN SetSum([i \in adds |-> events[i].quantity], adds)

C6_QuantityChangedSince(events, product_id) ==
    \E i \in DOMAIN events :
        /\ i > C6_LastRemoved(events, product_id)
        /\ events[i].event_type = "ItemQuantityChanged"
        /\ events[i].product_id = product_id

\* C6: the cart holds one entry per product_id; unless change_quantity set it,
\* the entry's quantity is the sum of the quantities added since the product
\* was last removed; item_count is the sum of the entries' quantities.
C6_AddMergesQuantities ==
    LET events == cart.uncommitted_events
        keys == DictKeys(cart.items)
    IN /\ Cardinality(keys) = Len(cart.items)
       /\ \A product_id \in ProductIds :
             ~C6_QuantityChangedSince(events, product_id) =>
                /\ product_id \in keys <=> C6_AddedSince(events, product_id) > 0
                /\ product_id \in keys =>
                      DictGet(cart.items, product_id).quantity
                          = C6_AddedSince(events, product_id)
       /\ Cart_item_count(cart)
             = SetSum([k \in keys |-> DictGet(cart.items, k).quantity], keys)

\* the same product added twice (1 and 2): one entry of quantity 3
C6_Witness ==
    /\ focus = "cart"
    /\ Len(cart.uncommitted_events) = 2
    /\ \A i \in 1..2 : /\ cart.uncommitted_events[i].event_type = "ItemAddedToCart"
                        /\ cart.uncommitted_events[i].product_id = "P001"
    /\ Len(cart.items) = 1
    /\ DictGet(cart.items, "P001").quantity = 3
    /\ Cart_item_count(cart) = 3

\* C8: checkout(order_id) on a PENDING cart with an item emits exactly one
\* CartCheckedOut carrying that order_id and the sum of price x quantity over
\* the items at that moment, and sets the status to CHECKED_OUT.
C8_CheckoutEmitsTotal ==
    [][ (CartCalled("checkout") /\ cart.status = "PENDING" /\ cart.items # EmptyDict)
        => LET keys == DictKeys(cart.items)
               total == SetSum([k \in keys |-> DictGet(cart.items, k).price
                                                * DictGet(cart.items, k).quantity],
                               keys)
           IN /\ last'.raised = None
              /\ cart'.uncommitted_events
                    = Append(cart.uncommitted_events, LastEvent(cart'))
              /\ LastEvent(cart').event_type = "CartCheckedOut"
              /\ LastEvent(cart').order_id = last'.args.order_id
              /\ LastEvent(cart').total_amount = total
              /\ LastEvent(cart').aggregate_version = cart.version + 1
              /\ cart'.status = "CHECKED_OUT"
              /\ cart'.items = cart.items ]_vars

\* two products in the cart, checked out for 2*2 + 3*1 = 7
C8_Witness ==
    /\ focus = "cart"
    /\ cart.status = "CHECKED_OUT"
    /\ last.cmd = "checkout" /\ last.raised = None
    /\ Len(cart.items) = 2
    /\ LastEvent(cart).event_type = "CartCheckedOut"
    /\ LastEvent(cart).order_id = "O-2"
    /\ LastEvent(cart).total_amount = 7

\* quantities held by the reservations that have not expired at time t
C10_ActiveReserved(self, t) ==
    LET active == {i \in DOMAIN self.reservations :
                        ~(t > self.reservations[i][2].reserved_until)}
    IN SetSum([i \in active |-> self.reservations[i][2].quantity], active)

\* C10: after every event available_stock = total_stock - (sum of the active
\* reservations); reserve and release events leave total_stock unchanged, and
\* after creation total_stock changes only by an Increased or Decreased event
\* and then by that event's quantity.
C10_ReservationAccounting ==
    LET events == product.uncommitted_events
        fresh == ProductAggregate(product.product_id, 0)
    IN /\ Product_available_stock(product, now, 0)
             = product.total_stock - C10_ActiveReserved(product, now)
       /\ \A i \in DOMAIN events :
            LET e == events[i]
                before == Product_replay(fresh, SubSeq(events, 1, i - 1))
                after == Product_replay(fresh, SubSeq(events, 1, i))
            IN /\ Product_available_stock(after, e.occurred_at, 0)
                     = after.total_stock - C10_ActiveReserved(after, e.occurred_at)
               /\ e.event_type \in {"ProductStockReserved",
                                     "ProductStockReservationReleased"}
                     => after.total_stock = before.total_stock
               /\ e.event_type = "ProductStockIncreased"
                     => after.total_stock = before.total_stock + e.quantity
               /\ e.event_type = "ProductStockDecreased"
                     => after.total_stock = before.total_stock - e.quantity
               /\ (e.event_type # "ProductCreated"
                      /\ after.total_stock # before.total_stock)
                     => e.event_type \in {"ProductStockIncreased",
                                          "ProductStockDecreased"}

\* stock 2, one unit reserved by each of two carts: nothing left available
C10_Witness ==
    /\ focus = "product"
    /\ product.total_stock = 2
    /\ DictKeys(product.reservations) = {"c1", "c2"}
    /\ LastEvent(product).event_type = "ProductStockReserved"
    /\ Product_available_stock(product, now, 0) = 0

----------------------------------------------------------------------------
(* Properties of the service, checked under Spec *)

Table(name) == IF name = "cart_events" THEN cart_events ELSE product_events

\* the rows a save_events call left in its table
StoredBy(s) == {r \in Table(s.table) : r.event_id[1] = s.eid}

SameTarget(s, t) ==
    /\ s.table = t.table
    /\ s.aggregate_id = t.aggregate_id
    /\ s.expected_version = t.expected_version

\* C1: of the save_events calls made for one aggregate with one
\* expected_version, in any interleaving, exactly one commits, and it stores
\* all of its events; every other one fails with ConcurrencyException and
\* stores none of its events. A save whose expected_version differs from the
\* highest stored version fails and appends nothing.
C1_OneWriterWins ==
    \A s \in saves :
        /\ s.ok => Cardinality(StoredBy(s)) = s.count
        /\ ~s.ok => StoredBy(s) = {}
        /\ s.current_version # s.expected_version => ~s.ok /\ StoredBy(s) = {}
        /\ \A t \in saves : SameTarget(s, t) /\ s.ok /\ t.ok => s = t
        /\ \E t \in saves : SameTarget(s, t) /\ t.ok

\* on the cart store and on the product store two saves had the same
\* expected_version and one committed; a loser passed the version check and
\* was refused by the unique index, another was refused by the version check
C1_Witness ==
    /\ \A name \in {"cart_events", "product_events"} :
          \E s, t \in saves :
             s.table = name /\ SameTarget(s, t) /\ s.ok /\ ~t.ok
    /\ \E t \in saves : ~t.ok /\ t.current_version = t.expected_version
    /\ \E t \in saves : ~t.ok /\ t.current_version # t.expected_version

StoredIds == {r.aggregate_id : r \in cart_events \cup product_events}

StoredVersions(aggregate_id) ==
    {r.aggregate_version : r \in RowsOf(cart_events \cup product_events, aggregate_id)}

\* C2: the events stored for one aggregate carry the versions 1..n, no gap
\* and no duplicate; the events a command emitted carry the versions that
\* follow the version the aggregate had before, one by one, and the
\* aggregate's version is the version of the last event emitted.
C2_VersionsContiguous ==
    /\ \A id \in StoredIds :
          LET rows == RowsOf(cart_events \cup product_events, id)
          IN /\ StoredVersions(id) = 1 .. Cardinality(rows)
             /\ \A r, q \in rows : r.aggregate_version = q.aggregate_version => r = q
    /\ \A p \in Procs :
          procs[p].found =>
             LET aggregate == procs[p].aggregate
                 emitted == aggregate.uncommitted_events
                 before == procs[p].loaded_version
             IN /\ \A i \in DOMAIN emitted :
                      emitted[i].aggregate_version = before + i
                /\ aggregate.version = before + Len(emitted)

\* an aggregate has three stored events, two of them stored by one save, and
\* a handler holds the aggregate that emitted two events in one command
C2_Witness ==
    /\ \E id \in StoredIds : Cardinality(RowsOf(cart_events \cup product_events, id)) >= 3
    /\ \E s \in saves : s.ok /\ s.count = 2
    /\ \E p \in Procs :
          /\ procs[p].found
          /\ Len(procs[p].aggregate.uncommitted_events) = 2

\* the ItemAddedToCart events stored for a product of a cart, up to a version
AddsUpTo(cart_id, product_id, version) ==
    {r \in RowsOf(cart_events, cart_id) :
        /\ r.event_type = "ItemAddedToCart"
        /\ r.event_data.product_id = product_id
        /\ r.aggregate_version <= version}

LoadedProduct(self) ==
    LET before == self.aggregate.version - Len(self.aggregate.uncommitted_events)
        rows == {r \in RowsOf(product_events, self.req.product_id) :
                    r.aggregate_version <= before}
    IN Product_replay(ProductAggregate(self.req.product_id, self.at),
                      [i \in 1 .. Cardinality(rows) |->
                          (CHOOSE r \in rows : r.aggregate_version = i).event_data])

\* total_stock less the reservations that have not run out at time t
AvailableAt(aggregate, t) ==
    aggregate.total_stock
    - SeqSum([i \in DOMAIN aggregate.reservations |->
                 IF t > aggregate.reservations[i][2].reserved_until
                 THEN 0 ELSE aggregate.reservations[i][2].quantity])

EmittedBy(n) ==
    {r \in cart_events \cup product_events : r.event_id[1].n = n}

\* C9: a coordinated add-to-cart whose quantity exceeds the available stock
\* of the product it loaded ends with a validation error; reserve_stock
\* emitted no ProductStockReserved event, and the request left no event in
\* either store, so no reservation is persisted and the cart's items are
\* what they were.
C9_InsufficientStockRejected ==
    \A p \in Procs :
        LET self == procs[p]
        IN (/\ self.uc = "ReserveStock" /\ self.found
            /\ self.req.quantity > AvailableAt(LoadedProduct(self), self.at))
           => /\ self.pc = "done"
              /\ self.result = "ValueError: Cannot reserve stock"
              /\ \A i \in DOMAIN self.aggregate.uncommitted_events :
                    self.aggregate.uncommitted_events[i].event_type
                        # "ProductStockReserved"
              /\ EmittedBy(self.n) = {}
              /\ self.tx = <<>>

\* a coordinated add was refused for lack of stock while the cart it was for
\* exists, once with all the stock reserved and once with some left
C9_Witness ==
    \E p \in Procs :
        LET self == procs[p]
        IN /\ self.uc = "ReserveStock" /\ self.found
           /\ self.pc = "done"
           /\ self.req.cart_id = "c1"
           /\ AvailableAt(LoadedProduct(self), self.at) = 1
           /\ self.req.quantity = 2

----------------------------------------------------------------------------
(* Properties of the product use cases, checked under SpecProduct *)

\* the quantities of the reservations an aggregate holds, run out or not
HeldStock(aggregate) ==
    SeqSum([i \in DOMAIN aggregate.reservations |->
               aggregate.reservations[i][2].quantity])

\* the product after the first k events of its stored stream
ProductAfter(product_id, k) ==
    Product_replay(ProductAggregate(product_id, 0),
                   SubSeq(get_events(product_events, product_id), 1, k))

StreamLength(product_id) == Cardinality(RowsOf(product_events, product_id))

\* C11: no overselling. After every event of a product's stored stream
\* total_stock >= 0 and the reservations held sum to at most total_stock, so
\* available_stock >= 0 at any time; the same holds of the aggregate of
\* every handler.
C11_NoOverselling ==
    /\ \A k \in 1 .. StreamLength("P001") :
          LET aggregate == ProductAfter("P001", k)
          IN /\ aggregate.total_stock >= 0
             /\ HeldStock(aggregate) <= aggregate.total_stock
             /\ Product_available_stock(aggregate, now, StartupEid) >= 0
    /\ \A p \in Procs :
          procs[p].found =>
             /\ procs[p].aggregate.total_stock >= 0
             /\ HeldStock(procs[p].aggregate) <= procs[p].aggregate.total_stock

\* the two carts hold the two units of the product, and a ReserveStock of
\* another handler was refused for lack of stock
C11_Witness ==
    /\ LET aggregate == ProductAfter("P001", StreamLength("P001"))
       IN /\ Len(aggregate.reservations) = 2
          /\ HeldStock(aggregate) = aggregate.total_stock
    /\ \E p \in Procs :
          /\ procs[p].pc = "done" /\ procs[p].uc = "ReserveStock"
          /\ procs[p].result = "ValueError: Insufficient stock"

ReleasedRows(cart_id) ==
    {r \in product_events :
        /\ r.event_type = "ProductStockReservationReleased"
        /\ r.event_data.cart_id = cart_id}

ReservedRows(cart_id) ==
    {r \in product_events :
        /\ r.event_type = "ProductStockReserved"
        /\ r.event_data.cart_id = cart_id}

\* C12: release is idempotent. A ReleaseReservation that loads a product on
\* which the cart holds no reservation emits no event and succeeds; between
\* two stored ProductStockReservationReleased events of one cart there is a
\* ProductStockReserved event of that cart: no reservation is released twice.
C12_ReleaseIdempotent ==
    /\ \A p \in Procs :
          LET self == procs[p]
          IN (/\ self.uc = "ReleaseReservation" /\ self.found
              /\ self.req.cart_id \notin DictKeys(LoadedProduct(self).reservations))
             => /\ self.aggregate.uncommitted_events = <<>>
                /\ self.pc = "done"
                /\ self.result = "ok"
    /\ \A cart_id \in CartIds :
          \A r, q \in ReleasedRows(cart_id) :
             (r.aggregate_id = q.aggregate_id
              /\ r.aggregate_version < q.aggregate_version)
             => \E v \in ReservedRows(cart_id) :
                   /\ v.aggregate_id = r.aggregate_id
                   /\ r.aggregate_version < v.aggregate_version
                   /\ v.aggregate_version < q.aggregate_version

\* two ReleaseReservation calls loaded the same reservation; one stored its
\* event, the other lost the save, loaded again, found nothing to release
\* and succeeded
C12_Witness ==
    \E s, t \in saves :
        /\ s.eid.uc = "ReleaseReservation" /\ t.eid.uc = "ReleaseReservation"
        /\ SameTarget(s, t) /\ s.ok /\ ~t.ok
        /\ \E p \in Procs :
              /\ procs[p].n = t.eid.n
              /\ procs[p].pc = "done" /\ procs[p].result = "ok"
              /\ procs[p].aggregate.uncommitted_events = <<>>

IsCheckoutRelease(event) ==
    /\ event.event_type = "ProductStockReservationReleased"
    /\ event.reason = "checkout"

\* C13: checkout_reservation for a cart that holds a reservation of quantity
\* q emits ProductStockReservationReleased (checkout, q) and then
\* ProductStockDecreased (q, order_id) and nothing else; total_stock is lower
\* by q and the reservation is gone; in the store the two events stand
\* together, at consecutive versions of one save, or not at all. Without a
\* reservation it raises and emits nothing.
C13_CheckoutReleasesThenDecreases ==
    /\ \A p \in Procs :
          LET self == procs[p]
              emitted == self.aggregate.uncommitted_events
              before == LoadedProduct(self)
              cart_id == self.req.cart_id
          IN (self.uc = "CheckoutReservation" /\ self.found) =>
             IF cart_id \in DictKeys(before.reservations)
             THEN LET quantity == DictGet(before.reservations, cart_id).quantity
                  IN /\ Len(emitted) >= 2
                     /\ IsCheckoutRelease(emitted[1])
                     /\ emitted[1].cart_id = cart_id
                     /\ emitted[1].quantity = quantity
                     /\ emitted[2].event_type = "ProductStockDecreased"
                     /\ emitted[2].quantity = quantity
                     /\ emitted[2].order_id = self.req.order_id
                     \* what reading reserved_stock for the projection adds
                     /\ \A i \in 3 .. Len(emitted) :
                           /\ emitted[i].event_type = "ProductStockReservationReleased"
                           /\ emitted[i].reason = "timeout"
                     /\ self.aggregate.total_stock = before.total_stock - quantity
                     /\ cart_id \notin DictKeys(self.aggregate.reservations)
             ELSE /\ emitted = <<>>
                  /\ self.pc = "done"
                  /\ self.result = "ValueError: No reservation found for cart"
    /\ \A r \in product_events :
          /\ IsCheckoutRelease(r.event_data) =>
                \E d \in product_events :
                   /\ d.event_type = "ProductStockDecreased"
                   /\ d.aggregate_id = r.aggregate_id
                   /\ d.aggregate_version = r.aggregate_version + 1
                   /\ d.event_id[1] = r.event_id[1]
          /\ r.event_type = "ProductStockDecreased" =>
                \E d \in product_events :
                   /\ IsCheckoutRelease(d.event_data)
                   /\ d.aggregate_id = r.aggregate_id
                   /\ d.aggregate_version = r.aggregate_version - 1
                   /\ d.event_id[1] = r.event_id[1]

\* a CheckoutReservation stored its two events and returned, and another
\* one found no reservation
C13_Witness ==
    /\ \E p \in Procs :
          /\ procs[p].uc = "CheckoutReservation" /\ procs[p].pc = "done"
          /\ procs[p].result = "ok"
          /\ \E d \in product_events :
                /\ d.event_type = "ProductStockDecreased"
                /\ d.event_id[1].n = procs[p].n
    /\ \E p \in Procs :
          /\ procs[p].uc = "CheckoutReservation" /\ procs[p].pc = "done"
          /\ procs[p].result = "ValueError: No reservation found for cart"

----------------------------------------------------------------------------
(* Properties of the retry loops, checked under SpecRetry *)

\* the saves the use case of a handler has lost so far
LostSaves(self) ==
    {s \in saves : s.eid.n = self.n /\ s.eid.uc = self.uc /\ ~s.ok}

\* a save was lost to a concurrent commit: another call stored the version
\* this one was about to write
LostToCommit(s) ==
    \E t \in saves :
        /\ t.ok /\ t.eid # s.eid
        /\ t.table = s.table /\ t.aggregate_id = s.aggregate_id
        /\ t.expected_version < s.expected_version + s.count
        /\ s.expected_version < t.expected_version + t.count

----------------------------------------------------------------------------
(* Properties of the projections and of the coordinated add, under Spec *)

\* C15: projection non-regression. No step lowers the version stored in a
\* projection row, of a cart or of a product.
C15_ProjectionNeverRegresses ==
    [][/\ \A cart_id \in DOMAIN cart_read_model :
             cart_read_model'[cart_id].version >= cart_read_model[cart_id].version
       /\ \A product_id \in DOMAIN product_read_model :
             product_read_model'[product_id].version
                >= product_read_model[product_id].version]_vars

----------------------------------------------------------------------------
(* Properties of the coordinated add, checked under SpecReserve *)

\* the rows of ProductStockReserved events that request n has stored for a
\* product and a cart
ReservedBy(n, product_id, cart_id) ==
    {r \in product_events :
        /\ r.event_type = "ProductStockReserved"
        /\ r.event_id[1].n = n /\ r.event_id[1].uc = "ReserveStock"
        /\ r.aggregate_id = product_id
        /\ r.event_data.cart_id = cart_id}

\* what request n has stored, or tried to store, in the cart's stream
CartWritesBy(n) ==
    {r \in cart_events : r.event_id[1].n = n}
    \cup {s \in saves : s.table = "cart_events" /\ s.eid.n = n}

\* the cart step comes after a stored reservation, and a coordinated add
\* that has stored none has written nothing to the cart
ReservedBeforeAdded ==
    /\ \A r \in cart_events :
          (r.event_type = "ItemAddedToCart" /\ r.event_id[1].n > 0)
          => ReservedBy(r.event_id[1].n, r.event_data.product_id,
                        r.aggregate_id) # {}
    /\ \A p \in Procs :
          LET self == procs[p]
              reserved == ReservedBy(self.n, self.req.product_id,
                                     self.req.cart_id)
          IN (self.pc # "idle" /\ self.req.kind = "AddItemIntegrated") =>
                /\ self.uc \in {"AddItemToCart", "ReleaseReservation"}
                      => reserved # {}
                /\ reserved = {} =>
                      /\ CartWritesBy(self.n) = {}
                      /\ \A i \in DOMAIN self.tx :
                            self.tx[i].aggregate_id # self.req.cart_id
                /\ (self.pc = "done" /\ self.uc = "ReserveStock") =>
                      /\ self.result \in {"ValueError: Cannot reserve stock",
                                          "ConcurrencyException"}
                      /\ reserved = {}

\* a step that changes the cart's stream or its projection is a step of a
\* handler in its cart step, whose request has a stored reservation
CartStepAfterReserve ==
    (cart_events' # cart_events \/ cart_read_model' # cart_read_model)
    => \E p \in Procs :
          /\ procs'[p] # procs[p]
          /\ procs[p].uc = "AddItemToCart"
          /\ ReservedBy(procs[p].n, procs[p].req.product_id,
                        procs[p].req.cart_id) # {}

\* C17: reserve-then-add ordering. An ItemAddedToCart event of a coordinated
\* add is stored only after a ProductStockReserved event of the same request
\* for the same product and cart has been stored; when ReserveStock fails,
\* for lack of stock or by a conflict on each of its attempts, the request
\* ends with that error, has stored no cart event, and no step of it has
\* changed the cart's projection.
C17_ReserveThenAdd == []ReservedBeforeAdded /\ [][CartStepAfterReserve]_vars

\* a coordinated add has lost all its attempts to reserve and ended with
\* ConcurrencyException, while another one has reserved and added its item
C17_Witness ==
    /\ \E p \in Procs :
          /\ procs[p].pc = "done" /\ procs[p].req.kind = "AddItemIntegrated"
          /\ procs[p].uc = "ReserveStock"
          /\ procs[p].result = "ConcurrencyException"
          /\ Cardinality({s \in saves : s.eid.n = procs[p].n /\ ~s.ok}) = max_retries
    /\ \E r \in cart_events :
          /\ r.event_type = "ItemAddedToCart" /\ r.event_id[1].n > 0
          /\ ReservedBy(r.event_id[1].n, r.event_data.product_id,
                        r.aggregate_id) # {}

----------------------------------------------------------------------------
(* Properties of the compensation, checked under SpecCompensate *)

\* the saves of a use case of request n that save_events has rejected
RejectedSaves(n, uc) == {s \in saves : s.eid.n = n /\ s.eid.uc = uc /\ ~s.ok}

OutOfRetries(n, uc) ==
    {s.eid.attempt : s \in RejectedSaves(n, uc)} = 0 .. max_retries - 1

\* why the cart step of a coordinated add fails, read from the stores: the
\* cart has no events, it has been checked out, or each attempt of the
\* request to save has been rejected
CartStepFailure(self) ==
    LET rows == RowsOf(cart_events, self.req.cart_id)
    IN IF rows = {} THEN "ValueError: Cart not found"
       ELSE IF \E r \in rows : r.event_type = "CartCheckedOut"
       THEN "ValueError: Cannot add items to cart with status"
       ELSE IF OutOfRetries(self.n, "AddItemToCart") THEN "ConcurrencyException"
       ELSE None

\* the rows of the releases that the rollback of request n has stored
RolledBackBy(n, product_id, cart_id) ==
    {r \in product_events :
        /\ r.event_type = "ProductStockReservationReleased"
        /\ r.event_id[1].n = n /\ r.event_id[1].uc = "ReleaseReservation"
        /\ r.aggregate_id = product_id
        /\ r.event_data.cart_id = cart_id
        /\ r.event_data.reason = "cart_operation_failed"}

\* C18: compensation. When the cart step of a coordinated add fails (the
\* cart is absent, the cart is not PENDING, or its save has lost on each of
\* the 3 attempts), ReleaseReservation runs for the product and the cart
\* with reason cart_operation_failed, and the request ends with the error of
\* the cart step: after the release has stored its event, after it has found
\* no reservation left, and after it has itself run out of retries. The
\* rollback runs in no other case.
C18_Compensation ==
    \A p \in Procs :
        LET self == procs[p]
            failure == CartStepFailure(self)
            reserved == ReservedBy(self.n, self.req.product_id, self.req.cart_id)
            released == RolledBackBy(self.n, self.req.product_id, self.req.cart_id)
        IN (self.pc # "idle" /\ self.req.kind = "AddItemIntegrated") =>
            /\ self.uc = "ReleaseReservation" =>
                  /\ failure # None /\ self.error = failure
                  /\ reserved # {}
            /\ (self.pc = "done" /\ reserved # {} /\ failure # None) =>
                  /\ self.uc = "ReleaseReservation"
                  /\ self.result = failure
                  /\ \/ released # {}
                     \/ OutOfRetries(self.n, "ReleaseReservation")
                     \/ /\ self.req.cart_id
                              \notin DictKeys(self.aggregate.reservations)
                        /\ self.aggregate.uncommitted_events = <<>>
            /\ self.uc # "ReleaseReservation" => released = {}
            /\ (self.pc = "done" /\ self.result = "ok") =>
                  /\ failure = None /\ released = {}
                  /\ \E r \in cart_events : r.event_id[1].n = self.n

\* a coordinated add has lost its 3 attempts to save the cart, its rollback
\* has stored the release, and it has ended with ConcurrencyException
C18_Witness ==
    \E p \in Procs :
        LET self == procs[p]
        IN /\ self.pc = "done" /\ self.req.kind = "AddItemIntegrated"
           /\ self.uc = "ReleaseReservation"
           /\ OutOfRetries(self.n, "AddItemToCart")
           /\ self.result = "ConcurrencyException"
           /\ RolledBackBy(self.n, self.req.product_id, self.req.cart_id) # {}

----------------------------------------------------------------------------
(* Properties of CreateCart, checked under SpecCreateCart *)

CreatedRows(cart_id) ==
    {r \in RowsOf(cart_events, cart_id) : r.event_type = "CartCreated"}

\* C16: CreateCart for a cart_id that has stored events when it loads ends
\* with "already exists" and stores nothing; CreateCart operations that run
\* concurrently for one cart_id store one CartCreated between them, at
\* version 1 and saved with expected_version 0, the others ending with
\* ConcurrencyException; so a cart stream that has rows has exactly one
\* CartCreated, as its first row.
C16_CreateCartOnce ==
    /\ \A cart_id \in CartIds :
          RowsOf(cart_events, cart_id) # {} =>
             /\ Cardinality(CreatedRows(cart_id)) = 1
             /\ \A r \in CreatedRows(cart_id) : r.aggregate_version = 1
    /\ \A s \in saves :
          s.eid.uc = "CreateCart" =>
             /\ s.expected_version = 0 /\ s.count = 1
             /\ s.ok => \E r \in CreatedRows(s.aggregate_id) :
                            r.event_id[1] = s.eid
             /\ ~s.ok => /\ EmittedBy(s.eid.n) = {}
                         /\ \E r \in CreatedRows(s.aggregate_id) :
                               r.event_id[1].n # s.eid.n
    /\ \A p \in Procs :
          LET self == procs[p]
          IN (self.uc = "CreateCart" /\ self.pc \notin {"idle", "load"}) =>
                /\ self.found =>
                      /\ self.pc = "done"
                      /\ self.result = "ValueError: Cart already exists"
                      /\ EmittedBy(self.n) = {}
                      /\ \A s \in saves : s.eid.n # self.n
                /\ self.pc = "done" =>
                      /\ self.result \in {"ok", "ConcurrencyException",
                                          "ValueError: Cart already exists"}
                      /\ self.result = "ok" <=>
                            \E r \in CreatedRows(self.req.cart_id) :
                               r.event_id[1].n = self.n
                      /\ self.result = "ConcurrencyException" <=>
                            \E s \in saves : s.eid.n = self.n /\ ~s.ok

\* two CreateCart for the free id have run concurrently: one has stored the
\* CartCreated, the other has been rejected by save_events; a third, started
\* after them, has found the cart and ended with "already exists"
C16_Witness ==
    /\ \E s, t \in saves :
          /\ s.eid.uc = "CreateCart" /\ t.eid.uc = "CreateCart"
          /\ s.aggregate_id = "c2" /\ t.aggregate_id = "c2"
          /\ s.ok /\ ~t.ok
    /\ \E p \in Procs :
          /\ procs[p].pc = "done" /\ procs[p].uc = "CreateCart"
          /\ procs[p].req.cart_id = "c2"
          /\ procs[p].result = "ValueError: Cart already exists"

----------------------------------------------------------------------------
(* Properties of the coordinated checkout, checked under SpecCheckout *)

CartNow(cart_id) == Cart_load_aggregate(cart_events, cart_id).agg

ProductNow(product_id) == Product_load_aggregate(product_events, product_id, now).agg

CheckedOutBy(n) ==
    {r \in cart_events : r.event_type = "CartCheckedOut" /\ r.event_id[1].n = n}

DecreasedBy(n, product_id) ==
    {r \in product_events :
        /\ r.event_type = "ProductStockDecreased"
        /\ r.event_id[1].n = n /\ r.aggregate_id = product_id}

\* C19: a coordinated checkout is not rolled back by product failures. Once
\* the CartCheckedOut of a request is stored it stays the last event of the
\* cart, whose status is CHECKED_OUT in the store and, from the projection
\* step on, in the projection; the request ends ok whatever the
\* CheckoutReservation steps did; and every product of the cart has been
\* attempted, in the cart's order: it has its ProductStockDecreased of the
\* request stored or its failure logged.
C19_CheckoutNotRolledBack ==
    \A p \in Procs :
        LET self == procs[p]
            current == CartNow(self.req.cart_id)
            failed == {self.warnings[i][1] : i \in DOMAIN self.warnings}
            completed == {product_id \in ProductIds :
                            DecreasedBy(self.n, product_id) # {}}
        IN (/\ self.pc # "idle" /\ self.req.kind = "CheckoutIntegrated"
            /\ CheckedOutBy(self.n) # {})
           => /\ current.status = "CHECKED_OUT"
              /\ \A r \in CheckedOutBy(self.n) :
                    r.aggregate_version = current.version
              /\ self.uc = "CheckoutReservation" =>
                    cart_read_model[self.req.cart_id].status = "CHECKED_OUT"
              /\ failed \cap completed = {}
              /\ self.pc = "done" =>
                    /\ self.result = "ok"
                    /\ self.uc = "CheckoutReservation"
                    /\ failed \cup completed = DictKeys(current.items)
                    /\ self.products_to_checkout = <<>>

\* a checkout has ended ok with its cart checked out, the CheckoutReservation
\* of its first product having failed and that of its second one stored
C19_Witness ==
    \E p \in Procs :
        LET self == procs[p]
        IN /\ self.pc = "done" /\ self.req.kind = "CheckoutIntegrated"
           /\ self.result = "ok"
           /\ CheckedOutBy(self.n) # {}
           /\ self.warnings = << <<"P001", "ValueError: No reservation found for cart">> >>
           /\ DecreasedBy(self.n, "P002") # {}
           /\ DecreasedBy(self.n, "P001") = {}

\* C20: after a coordinated checkout in which every CheckoutReservation
\* step has succeeded, each product of the cart has its total_stock lowered
\* by the quantity the cart holds of it, and holds no reservation for the
\* cart.
C20_StockDropsByCartQuantity ==
    \A p \in Procs :
        LET self == procs[p]
            items == CartNow(self.req.cart_id).items
        IN (/\ self.pc = "done" /\ self.req.kind = "CheckoutIntegrated"
            /\ self.result = "ok" /\ self.warnings = <<>>)
           => \A i \in DOMAIN items :
                 LET product_id == items[i][1]
                     stored == ProductNow(product_id)
                 IN /\ stored.total_stock
                         = Catalogue[product_id].total_stock - items[i][2].quantity
                    /\ self.req.cart_id \notin DictKeys(stored.reservations)

----------------------------------------------------------------------------
(* Properties of reserve_stock and of save_events, checked under SpecProduct *)

\* the reservations of an aggregate that have run out at time t, in the
\* order of the dict
ExpiredAt(aggregate, t) ==
    SelectSeq(DictValues(aggregate.reservations), LAMBDA r : is_expired(r, t))

ReservedQuantity(reservations) ==
    SeqSum([i \in DOMAIN reservations |-> reservations[i].quantity])

\* a handler between the reserve_stock it has called and the end of its save,
\* or returned with the error of reserve_stock
AfterReserveStock(self) ==
    /\ self.uc = "ReserveStock" /\ self.found
    /\ \/ self.pc \in {"check_version", "insert", "commit"}
       \/ self.pc = "done" /\ self.result = "ValueError: Insufficient stock"

\* C25: reserve_stock on a product holding reservations whose reserved_until
\* has passed emits one ProductStockReservationReleased with reason timeout
\* for each of them, in their order, before anything else; it accepts the
\* quantity exactly when it fits into total_stock less the reservations that
\* have not run out, and then emits the ProductStockReserved after the
\* releases; when it refuses, the releases are all it has emitted.
C25_ExpiredReleasedBeforeReserve ==
    \A p \in Procs :
        LET self == procs[p]
            loaded == LoadedProduct(self)
            expired == ExpiredAt(loaded, self.at)
            emitted == self.aggregate.uncommitted_events
            held == ReservedQuantity(DictValues(loaded.reservations))
                    - ReservedQuantity(expired)
        IN AfterReserveStock(self) =>
            /\ Len(emitted) >= Len(expired)
            /\ \A i \in DOMAIN expired :
                  /\ emitted[i].event_type = "ProductStockReservationReleased"
                  /\ emitted[i].cart_id = expired[i].cart_id
                  /\ emitted[i].quantity = expired[i].quantity
                  /\ emitted[i].reason = "timeout"
            /\ IF self.req.quantity <= loaded.total_stock - held
               THEN /\ self.pc # "done"
                    /\ Len(emitted) = Len(expired) + 1
                    /\ emitted[Len(emitted)].event_type = "ProductStockReserved"
                    /\ emitted[Len(emitted)].cart_id = self.req.cart_id
                    /\ emitted[Len(emitted)].quantity = self.req.quantity
               ELSE /\ self.pc = "done"
                    /\ Len(emitted) = Len(expired)

\* a reservation that fits only because two reservations have run out is
\* about to be committed behind their two releases
C25_Witness ==
    \E p \in Procs :
        LET self == procs[p]
            loaded == LoadedProduct(self)
        IN /\ AfterReserveStock(self) /\ self.pc = "commit"
           /\ Len(ExpiredAt(loaded, self.at)) = 2
           /\ self.req.quantity
                 > loaded.total_stock
                   - ReservedQuantity(DictValues(loaded.reservations))
           /\ Len(self.tx) = 3

\* C26: save_events is all-or-nothing. A save that has ended has all of its
\* events in the table or, when it was rejected, none of them; every row of
\* a request in the table belongs to a save that has committed; the rows a
\* save has inserted and not yet committed are in no table, so that no
\* get_events or load_aggregate reads part of a save.
C26_SaveAllOrNothing ==
    /\ \A s \in saves :
          Cardinality(StoredBy(s)) = IF s.ok THEN s.count ELSE 0
    /\ \A r \in cart_events \cup product_events :
          r.event_id[1].n > 0 => \E s \in saves : s.ok /\ s.eid = r.event_id[1]
    /\ \A p \in Procs : \A i \in DOMAIN procs[p].tx :
          procs[p].tx[i] \notin cart_events \cup product_events

\* a save of two events has passed the version check, has been rejected at
\* an insert and has left nothing, next to a save of two events that has
\* committed
C26_Witness ==
    \E s, t \in saves :
        /\ ~s.ok /\ s.count >= 2 /\ s.current_version = s.expected_version
        /\ StoredBy(s) = {}
        /\ t.ok /\ t.count >= 2 /\ t.aggregate_id = s.aggregate_id

----------------------------------------------------------------------------
(* Properties of the aggregate a use case holds after its save, under Spec *)

\* the save of the handler's current attempt has committed
SavedOk(self) ==
    \E s \in saves : s.ok /\ s.eid = Eid(self)

\* C30: after a use case has saved an aggregate's events, the buffer of
\* uncommitted events of that aggregate is empty.
C30_BufferClearedAfterSave ==
    \A p \in Procs :
        LET self == procs[p]
        IN (self.pc = "project" /\ SavedOk(self))
           => self.aggregate.uncommitted_events = <<>>

----------------------------------------------------------------------------
(* Properties of the product projection after a use case, under SpecProduct *)

HighestStored(aggregate_id) ==
    LET versions == StoredVersions(aggregate_id)
    IN CHOOSE v \in versions : \A w \in versions : w <= v

\* the handler is the only one that has run, and its use case has saved its
\* events and written the projection
AloneAndProjected(self) ==
    /\ started = 1
    /\ self.pc = "done" /\ self.result = "ok"
    /\ OnProduct(self) /\ SavedOk(self)

----------------------------------------------------------------------------
(* Properties of the coordinated remove, checked under SpecRemove *)

\* the ItemRemovedFromCart rows stored by handler n
RemovedBy(n) ==
    {r \in cart_events : r.event_id[1].n = n /\ r.event_type = "ItemRemovedFromCart"}

\* the releases stored by handler n
ReleasesBy(n) ==
    {r \in product_events :
        r.event_id[1].n = n /\ r.event_type = "ProductStockReservationReleased"}

\* the saves of handler n that were stored
SavesBy(n) == {s \in saves : s.eid.n = n /\ s.ok}

Removing(self) == self.pc # "idle" /\ self.req.kind = "RemoveIntegrated"

\* the cart as its stored events before a version make it
CartBefore(cart_id, version) ==
    Cart_load_aggregate({r \in cart_events : r.aggregate_version < version},
                        cart_id).agg

\* C28: in the coordinated remove the ItemRemovedFromCart is stored before
\* the release of the reservation is run, and the release is for the product
\* and the cart of the request with the reason item_removed; a release that
\* fails leaves the remove successful and the cart event stored; when the
\* product is not in the cart nothing is stored and no release is run.
C28_RemoveThenRelease ==
    /\ [](\A p \in Procs :
            LET self == procs[p]
            IN Removing(self) =>
                 /\ (self.uc = "ReleaseReservation" \/ ReleasesBy(self.n) # {})
                        => /\ Cardinality(RemovedBy(self.n)) = 1
                           /\ \A r \in RemovedBy(self.n) :
                                 /\ r.aggregate_id = self.req.cart_id
                                 /\ r.event_data.product_id = self.req.product_id
                 /\ \A r \in RemovedBy(self.n) :
                        self.req.product_id
                            \in DictKeys(CartBefore(self.req.cart_id,
                                                    r.aggregate_version).items)
                 /\ \A r \in ReleasesBy(self.n) :
                        /\ r.aggregate_id = self.req.product_id
                        /\ r.event_data.cart_id = self.req.cart_id
                        /\ r.event_data.reason = "item_removed"
                 /\ (self.pc = "done" /\ RemovedBy(self.n) # {})
                        => self.result = "ok"
                 /\ self.warnings # <<>> => RemovedBy(self.n) # {}
                 /\ (self.pc = "done"
                        /\ self.result = "ValueError: Product not found in cart")
                        => SavesBy(self.n) = {} /\ self.warnings = <<>>)
    /\ [][cart_events \subseteq cart_events']_vars

\* one remove has stored its release, the release of another has failed and
\* that remove has succeeded all the same
C28_Witness ==
    /\ \E p \in Procs :
          /\ Removing(procs[p]) /\ procs[p].pc = "done"
          /\ procs[p].result = "ok"
          /\ ReleasesBy(procs[p].n) # {}
    /\ \E p \in Procs :
          /\ Removing(procs[p]) /\ procs[p].pc = "done"
          /\ procs[p].result = "ok"
          /\ procs[p].warnings # <<>>
          /\ RemovedBy(procs[p].n) # {}

----------------------------------------------------------------------------
(* Properties of ExpireCart and of the scheduler's tick, under SpecExpire *)

ExpiredRows(cart_id) ==
    {r \in RowsOf(cart_events, cart_id) : r.event_type = "CartExpired"}

\* handler p takes the step of ExpireCart that loads the cart, and the cart
\* is absent or not PENDING
LoadsTerminal(p) ==
    LET self == procs[p]
        loaded == Cart_load_aggregate(cart_events, self.req.cart_id)
    IN /\ self.pc = "load" /\ self.uc = "ExpireCart"
       /\ procs'[p] # self
       /\ ~loaded.found \/ loaded.agg.status # "PENDING"

\* ExpireCart returns at once: no error, no event, no projection write and
\* no ReleaseReservation; the tick goes on with its next cart
ReturnsSilently(p) ==
    /\ UNCHANGED <<cart_events, product_events, cart_read_model,
                   product_read_model, saves>>
    /\ procs'[p].warnings = procs[p].warnings
    /\ procs'[p].tx = <<>> /\ procs'[p].events = <<>>
    /\ \/ procs'[p].pc = "done" /\ procs'[p].result = "ok"
       \/ /\ procs[p].req.kind = "ExpirationTick"
          /\ procs'[p].pc = "load" /\ procs'[p].uc = "ExpireCart"
          /\ procs[p].expired_cart_ids # <<>>
          /\ procs'[p].req.cart_id = procs[p].expired_cart_ids[1]

\* ExpireCart has run by itself to its end on a cart that was never checked out
ExpiredDirectly(self) ==
    /\ self.pc = "done" /\ self.req.kind = "ExpireCart"
    /\ RowsOf(cart_events, self.req.cart_id) # {}
    /\ \A r \in RowsOf(cart_events, self.req.cart_id) :
          r.event_type # "CartCheckedOut"

\* C21: ExpireCart on a cart that is absent, checked out or expired returns
\* without error, stores no event, leaves the projection as it is and runs
\* no ReleaseReservation; however often ExpireCart runs on a PENDING cart,
\* one CartExpired is stored for it.
C21_ExpireIdempotent ==
    /\ [][\A p \in Procs : LoadsTerminal(p) => ReturnsSilently(p)]_vars
    /\ [](\A cart_id \in CartIds : Cardinality(ExpiredRows(cart_id)) <= 1)
    /\ [](\A p \in Procs :
            ExpiredDirectly(procs[p])
            => Cardinality(ExpiredRows(procs[p].req.cart_id)) = 1)

\* ExpireCart has run twice on cart c1, which was PENDING: one run has stored
\* the CartExpired, the other has found the cart EXPIRED and has returned
C21_Witness ==
    /\ started = 2
    /\ Cardinality(ExpiredRows("c1")) = 1
    /\ \A p \in Procs :
          /\ procs[p].pc = "done" /\ procs[p].req.kind = "ExpireCart"
          /\ procs[p].req.cart_id = "c1" /\ procs[p].result = "ok"
    /\ \E p \in Procs : \E r \in ExpiredRows("c1") : r.event_id[1].n = procs[p].n
    /\ \E p \in Procs :
          /\ procs[p].found /\ procs[p].aggregate.status = "EXPIRED"
          /\ procs[p].aggregate.uncommitted_events = <<>>
          /\ SavesBy(procs[p].n) = {}

\* the CartExpired rows stored by handler n
ExpiredBy(n) ==
    {r \in cart_events : r.event_id[1].n = n /\ r.event_type = "CartExpired"}

Warned(self) == {self.warnings[i][1] : i \in DOMAIN self.warnings}

\* the cart holds no reservation of the product
Released(product_id, cart_id) ==
    cart_id \notin DictKeys(ProductNow(product_id).reservations)

\* C29: ExpireCart runs ReleaseReservation, with reason cart_expired, only
\* after its CartExpired is stored, and for every product of the cart; a
\* release that fails is logged, the other products are released all the
\* same and the expiry stays; a cart the tick fails to expire is logged and
\* the other carts the tick has listed are expired.
C29_ExpireReleasesAll ==
    /\ [](\A p \in Procs :
            LET self == procs[p]
                expired == {r.aggregate_id : r \in ExpiredBy(self.n)}
            IN (self.pc # "idle" /\ Expiring(self)) =>
                 /\ self.uc = "ReleaseReservation" => self.req.cart_id \in expired
                 /\ \A r \in ReleasesBy(self.n) :
                        /\ r.event_data.cart_id \in expired
                        /\ r.event_data.reason = "cart_expired"
                 /\ (self.pc = "done" /\ self.req.kind = "ExpireCart"
                        /\ ExpiredBy(self.n) # {})
                        => /\ self.result = "ok"
                           /\ \A product_id \in
                                    DictKeys(CartNow(self.req.cart_id).items) :
                                 \/ product_id \in Warned(self)
                                 \/ Released(product_id, self.req.cart_id)
                 /\ (self.pc = "done" /\ self.req.kind = "ExpirationTick")
                        => /\ self.result = "ok"
                           /\ \A i \in DOMAIN self.listed :
                                 \/ self.listed[i] \in Warned(self)
                                 \/ CartNow(self.listed[i]).status # "PENDING"
                           /\ \A cart_id \in expired :
                                 \A product_id \in DictKeys(CartNow(cart_id).items) :
                                    \/ product_id \in Warned(self)
                                    \/ Released(product_id, cart_id))
    /\ [][cart_events \subseteq cart_events']_vars

\* a tick has listed two carts; the expiry of the first has failed and the
\* second has been expired all the same; ExpireCart called by itself has
\* expired the first, has failed to release one product and has released
\* the other
C29_Witness ==
    /\ \E p \in Procs :
          /\ procs[p].pc = "done" /\ procs[p].req.kind = "ExpirationTick"
          /\ Len(procs[p].listed) = 2
          /\ procs[p].listed[1] \in Warned(procs[p])
          /\ \E r \in ExpiredBy(procs[p].n) : r.aggregate_id = procs[p].listed[2]
    /\ \E p \in Procs :
          /\ procs[p].pc = "done" /\ procs[p].req.kind = "ExpireCart"
          /\ ExpiredBy(procs[p].n) # {}
          /\ Len(procs[p].warnings) = 1
          /\ procs[p].warnings[1][1] = "P001"
          /\ ReleasesBy(procs[p].n) # {}

----------------------------------------------------------------------------
(* Properties of the scheduler's stop(), checked under SpecScheduler *)

\* C23: a tick that has started runs to its end, also when stop() is called
\* meanwhile: once the task is done, every cart it has expired has had the
\* ReleaseReservation of each of its products run (released, or logged as
\* failed), and no listed cart is left unvisited.
C23_TickNotCutOff ==
    \A p \in Procs :
        LET self == procs[p]
        IN (self.pc = "done" /\ self.req.kind = "ExpirationTick")
           => /\ self.expired_cart_ids = <<>>
              /\ \A r \in ExpiredBy(self.n) :
                    \A product_id \in DictKeys(CartNow(r.aggregate_id).items) :
                       \/ product_id \in Warned(self)
                       \/ Released(product_id, r.aggregate_id)

----------------------------------------------------------------------------
(* Properties of the expiry of stale carts, checked under SpecExpireLive *)

\* the cart is PENDING and its last activity is older than the timeout
StalePending(cart_id) ==
    /\ RowsOf(cart_events, cart_id) # {}
    /\ CartNow(cart_id).status = "PENDING"
    /\ CartNow(cart_id).last_activity < now - timeout_minutes

\* the cart is EXPIRED and holds no reservation of a product of its items
ExpiredAndReleased(cart_id) ==
    /\ CartNow(cart_id).status = "EXPIRED"
    /\ \A product_id \in DictKeys(CartNow(cart_id).items) :
          Released(product_id, cart_id)

\* C22: a PENDING cart whose last activity is older than the timeout gets
\* its CartExpired stored by the scheduler, and the reservations it holds on
\* the products of its items are released.
C22_StaleCartExpires ==
    \A cart_id \in CartIds :
        StalePending(cart_id) ~> ExpiredAndReleased(cart_id)

----------------------------------------------------------------------------
(* Exactly-once delivery of a notification, checked under SpecNotifier *)

----------------------------------------------------------------------------
(* Re-reserving for a cart, checked under SpecDomain *)

\* C31: a successful reserve_stock for a cart that already holds a reservation
\* (not timed out) leaves exactly one reservation for the cart, and its
\* quantity is the old reserved quantity plus the requested quantity.
C31_ReReserveAugments ==
    [][ ( /\ focus = "product"
          /\ last'.flip # last.flip
          /\ last'.cmd = "reserve_stock" /\ last'.raised = None
          /\ last'.args.cart_id \in DictKeys(product.reservations)
          /\ ~(now > DictGet(product.reservations,
                             last'.args.cart_id).reserved_until) )
        => LET cart_id == last'.args.cart_id
               held == {i \in DOMAIN product'.reservations :
                            product'.reservations[i][1] = cart_id}
           IN /\ Cardinality(held) = 1
              /\ DictGet(product'.reservations, cart_id).quantity
                    = DictGet(product.reservations, cart_id).quantity
                        + last'.args.quantity ]_vars

----------------------------------------------------------------------------
(* Properties of the cart's stream, checked under SpecLifecycle *)

TerminalTypes == {"CartCheckedOut", "CartExpired"}

\* C32: in every cart's stored stream a terminal event (CartCheckedOut or
\* CartExpired) is the last event, so the stream holds at most one of them
\* and no operation has appended an event after it.
C32_TerminalEventIsLast ==
    \A r \in cart_events :
        r.event_type \in TerminalTypes =>
            \A q \in cart_events :
                q.aggregate_id = r.aggregate_id /\ q # r
                    => q.aggregate_version < r.aggregate_version

\* cart c1 is checked out, and a save of the other operation, which had loaded
\* the PENDING cart, was refused
C32_Witness ==
    /\ \E r \in cart_events :
            r.aggregate_id = "c1" /\ r.event_type = "CartCheckedOut"
    /\ \E s \in saves :
            /\ s.table = "cart_events" /\ s.aggregate_id = "c1" /\ ~s.ok
            /\ s.eid.uc \in {"ExpireCart", "AddItemToCart", "RemoveItemFromCart"}

----------------------------------------------------------------------------
(* The compensation as an undo, checked under SpecCompensate *)

\* the reservation a product aggregate holds for a cart: its quantity, or 0
\* when it holds none
ReservedFor(aggregate, cart_id) ==
    IF cart_id \in DictKeys(aggregate.reservations)
    THEN DictGet(aggregate.reservations, cart_id).quantity
    ELSE 0

\* C33: when the cart step of a coordinated add has failed and the
\* compensating release is stored, the product's reservation for the cart
\* is what it was before the add stored its reservation (the same quantity,
\* or none), and the release leaves the reservations of the other carts as
\* they were.
C33_RollbackRestores ==
    \A p \in Procs :
        LET self == procs[p]
            product_id == self.req.product_id
            cart_id == self.req.cart_id
            reserved == ReservedBy(self.n, product_id, cart_id)
            released == RolledBackBy(self.n, product_id, cart_id)
        IN (self.pc # "idle" /\ self.req.kind = "AddItemIntegrated") =>
            \A r \in reserved, c \in released :
                LET before == ProductAfter(product_id, r.aggregate_version - 1)
                    step == ProductAfter(product_id, c.aggregate_version - 1)
                    after == ProductAfter(product_id, c.aggregate_version)
                IN /\ ReservedFor(after, cart_id) = ReservedFor(before, cart_id)
                   /\ \A other \in CartIds \ {cart_id} :
                         ReservedFor(after, other) = ReservedFor(step, other)

----------------------------------------------------------------------------
(* Cart quantity and reserved quantity, checked under SpecSequential *)

\* every coordinated add for the cart so far has returned, and each of them
\* that reserved has stored its ItemAddedToCart: none was rolled back
AddsSucceeded(cart_id) ==
    /\ \A p \in Procs : procs[p].pc \in {"idle", "done"}
    /\ \A r \in product_events :
          (r.event_type = "ProductStockReserved" /\ r.event_data.cart_id = cart_id)
          => \E a \in RowsOf(cart_events, cart_id) :
                a.event_type = "ItemAddedToCart" /\ a.event_id[1].n = r.event_id[1].n
    /\ \A r \in product_events :
          r.event_type = "ProductStockReservationReleased"
          => r.event_data.cart_id # cart_id

\* C34: after a series of successful coordinated adds on one cart, called one
\* after the other, the reservation each product of the cart holds for the
\* cart has the quantity the product has in the cart.
C34_ReservedEqualsCartQuantity ==
    \A cart_id \in CartIds :
        AddsSucceeded(cart_id) =>
            LET items == CartNow(cart_id).items
            IN \A product_id \in DictKeys(items) :
                  ReservedFor(ProductNow(product_id), cart_id)
                      = DictGet(items, product_id).quantity

----------------------------------------------------------------------------
(* Adds and removes of one product, checked under SpecLifecycle *)

\* the requests so far were coordinated adds and removes, each has returned
\* without an error or a warning, no save was refused and no time has passed
AddsAndRemovesSucceeded ==
    /\ now = 0
    /\ Cardinality({p \in Procs : procs[p].pc = "done"}) = started
    /\ \A p \in Procs :
          LET self == procs[p]
          IN /\ self.pc \in {"idle", "done"}
             /\ self.pc = "done" =>
                   /\ self.req.kind \in {"AddItemIntegrated", "RemoveIntegrated"}
                   /\ self.result = "ok"
                   /\ self.warnings = <<>>
    /\ \A s \in saves : s.ok

\* C35: once interleaved coordinated adds and removes of one product on one
\* cart have all finished, every step of them having succeeded, the product
\* is in the PENDING cart's items if and only if the product holds a
\* reservation for the cart.
C35_InCartIffReserved ==
    AddsAndRemovesSucceeded =>
        LET current == CartNow("c1")
        IN current.status = "PENDING" =>
              ( "P001" \in DictKeys(current.items)
                <=> "c1" \in DictKeys(ProductNow("P001").reservations) )

----------------------------------------------------------------------------
(* The scheduler and carts in use, checked under SpecActive *)

\* C36: the scheduler never expires an active cart: a stored CartExpired
\* comes only after events of its cart that are older than the time of the
\* expiry minus the timeout, so a cart that has received an event since the
\* tick selected it is not expired in that tick.
C36_OnlyStaleCartsExpire ==
    \A r \in cart_events :
        (r.event_type = "CartExpired" /\ r.event_id[1].uc = "ExpireCart") =>
            \A q \in RowsOf(cart_events, r.aggregate_id) :
                q.aggregate_version < r.aggregate_version
                    => q.occurred_at < r.occurred_at - timeout_minutes

----------------------------------------------------------------------------
(* One decrement of the stock per checkout, checked under SpecCheckout *)

CheckedOutRows(cart_id) ==
    {r \in RowsOf(cart_events, cart_id) : r.event_type = "CartCheckedOut"}

\* the ProductStockDecreased rows of a product that a checkout of the cart's
\* reservation has stored: each stands right after the release of that
\* reservation
DecreasedFor(product_id, cart_id) ==
    {r \in RowsOf(product_events, product_id) :
        /\ r.event_type = "ProductStockDecreased"
        /\ \E q \in RowsOf(product_events, product_id) :
              /\ q.aggregate_version = r.aggregate_version - 1
              /\ q.event_type = "ProductStockReservationReleased"
              /\ q.event_data.cart_id = cart_id
              /\ q.event_data.reason = "checkout"}

\* C37: under concurrent and retried checkouts of one cart the cart's stream
\* holds at most one CartCheckedOut and each product's stream holds at most
\* one ProductStockDecreased for the cart's reservation, stored by the request
\* that stored the CartCheckedOut.
C37_StockDecrementedOnce ==
    \A cart_id \in CartIds :
        /\ Cardinality(CheckedOutRows(cart_id)) <= 1
        /\ \A product_id \in ProductIds :
              /\ Cardinality(DecreasedFor(product_id, cart_id)) <= 1
              /\ \A r \in DecreasedFor(product_id, cart_id) :
                    CheckedOutBy(r.event_id[1].n) \subseteq CheckedOutRows(cart_id)
                    /\ CheckedOutBy(r.event_id[1].n) # {}

\* two checkouts of cart c1 have run: one has stored the CartCheckedOut and
\* the decrease of P001, the other had its save refused and ended with the
\* error of the status check
C37_Witness ==
    /\ DecreasedFor("P001", "c1") # {}
    /\ \E s \in saves :
          /\ s.table = "cart_events" /\ ~s.ok /\ s.eid.uc = "CheckoutCart"
    /\ \E p \in Procs :
          LET self == procs[p]
          IN /\ self.pc = "done" /\ self.req.kind = "CheckoutIntegrated"
             /\ self.result = "ValueError: Cannot checkout cart with status"
             /\ CheckedOutBy(self.n) = {}

----------------------------------------------------------------------------
(* Retries of a failed delivery, checked under SpecNotifierLive *)

\* the delivery of the notification has raised and fewer than 3 attempts
\* have been made
FailedWithRetriesLeft(id) ==
    /\ id \in DOMAIN notifications
    /\ notifications[id].status = "failed"
    /\ notifications[id].attempts < celery_max_retries

\* C38: a notification whose delivery has raised is retried: its send task
\* runs again and attempts the delivery again, so the notification does not
\* stay in status failed while fewer than 3 attempts have been made.
C38_FailedDeliveryRetried ==
    \A id \in 1..MaxNotifications :
        FailedWithRetriesLeft(id) ~> ~FailedWithRetriesLeft(id)

----------------------------------------------------------------------------
(* Cancel against a running send task, checked under SpecNotifier *)

\* a worker's call of deliver_email / deliver_push for the notification
\* returns in this step
DeliveryReturns(id) ==
    \E w \in Workers :
        /\ workers[w].pc = "deliver"
        /\ workers[w].task.notification_id = id
        /\ workers'[w].pc = "sent"

\* the delivery of the notification has returned
WasDelivered(id) ==
    \/ notifications[id].status = "sent"
    \/ \E w \in Workers :
            /\ workers[w].pc = "sent"
            /\ workers[w].task.notification_id = id

\* repo.cancel commits its status and returns True in this step
CancelReportsCancelled(id) ==
    /\ id \in DOMAIN notifications
    /\ notifications[id].status # "cancelled"
    /\ notifications'[id].status = "cancelled"

\* C39: cancel and send exclude each other under every interleaving: no
\* delivery returns for a notification whose status is cancelled, and cancel
\* does not report cancelled for a notification that was delivered.
C39_CancelExcludesSend ==
    [][\A id \in 1..MaxNotifications :
            /\ DeliveryReturns(id) => notifications[id].status # "cancelled"
            /\ CancelReportsCancelled(id) => ~WasDelivered(id)]_vars

====
